---------------------------- MODULE Spec2Model ----------------------------
(***************************************************************************)
(* Pylontech BMS console client: the session managers PylontechBMS         *)
(* (custom_components/pylontech/pylontech.py) and PylontechConsole          *)
(* (custom_components/pylontech_console/pylontech.py).                      *)
(*                                                                         *)
(* Bytes are their ASCII codes, a line is the sequence of its bytes.  A    *)
(* coroutine runs atomically between two awaits, so every action below is  *)
(* the code between two suspension points of one coroutine.                *)
(***************************************************************************)
EXTENDS Integers, Sequences, FiniteSets, TLC

(***************************************************************************)
(* Bounds of the model.                                                    *)
(***************************************************************************)
MaxLines == 2        \* literal lines of an arbitrary response
MaxBody == 1         \* data lines of a well-formed device response
MaxConns == 3        \* connections opened in one connect/disconnect history
MaxUnits == 3        \* battery modules in a unit, bat or info response
MaxOmitted == 1      \* labelled lines left out of an info response

(***************************************************************************)
(* Program constants.                                                      *)
(***************************************************************************)
CR == 13
LF == 10
ReadMax == 120
CellsPerUnit == 15

Prompt == <<112, 121, 108, 111, 110, 62>>                      \* pylon>
EndOk == <<67, 111, 109, 109, 97, 110, 100, 32, 99, 111, 109, 112, 108, 101,
           116, 101, 100, 32, 115, 117, 99, 99, 101, 115, 115, 102, 117, 108,
           108, 121>>                           \* Command completed successfully
Dollars == <<36, 36>>                                          \* $$
END_PROMPTS == {EndOk, Dollars}
At == <<64>>                                                   \* @

CmdInfo == <<105, 110, 102, 111>>
CmdPwr == <<112, 119, 114>>
CmdUnit == <<117, 110, 105, 116>>
CmdBat == <<98, 97, 116>>
Commands == {CmdInfo, CmdPwr, CmdUnit, CmdBat}

Impls == {"BMS", "Console"}
None == {}              \* a handle that is None; an open one is {connection}
NoExc == "none"         \* no exception raised
Callers == {1, 2}

VARIABLES
    impl,       \* which session manager class this instance is
    reader,     \* self.reader: None or {the connection it reads}
    writer,     \* self.writer: None or {the connection it writes}
    conns,      \* the connections that are open (opened and not yet closed)
    nconn,      \* how many connections have been opened so far
    call,       \* the connect/disconnect call under way, or "none"
    last,       \* the last connect/disconnect call that ended, and how
    tasks,      \* the coroutines that call command methods on the instance
    pc,         \* per coroutine: where it is in its call
    cmd,        \* per coroutine: the command it invokes
    lines,      \* per coroutine: _exec_cmd's local `lines`
    linebytes,  \* per coroutine: _exec_cmd's local `linebytes`
    framed,     \* per coroutine: <<lines>> as the while loop left it, <<>> before
    ret,        \* per coroutine: the list _exec_cmd returned
    exc,        \* per coroutine: the exception that ended the call, or NoExc
    parsed,     \* per coroutine: whether the command parser was run
    sent,       \* the byte strings written to the socket, in order
    answered,   \* how many of them the peer has answered
    wire,       \* response bytes of the peer that no read has returned yet
    peer,       \* what the peer does once `wire` is empty: "closed" | "silent"
    accepts,    \* whether the peer takes written bytes (drain completes)
    segs,       \* how the bytes reach the reader: in "any" pieces, or "whole"
    src,        \* the literal lines the response was built from
    full,       \* the whole response byte stream
    bmus,       \* self.bmus of PylontechBMS
    parse,      \* per coroutine: <<what the command parser gave>>, <<>> before
    arg,        \* a decoder or parser applied on its own: its arguments
    res,        \* <<its result>>, <<>> before it is applied
    registry,   \* device registry: serial numbers of the entry's BMU devices
    coordinator,\* the fields of the PylontechUpdateCoordinator of the entry
    entities,   \* the sensor ids sensor.async_setup_entry has registered
    result,     \* <<what the last _async_update_data built>>, <<>> before
    setups,     \* how many times async_setup_entry has run
    cycle       \* where the coordinator is in _async_update_data/detect_sensors

session == <<impl, reader, writer, conns, nconn, call, last>>
locals == <<lines, linebytes, framed, ret, parsed>>
device == <<answered, peer, accepts, segs, src, full>>
objects == <<bmus, parse>>
pure == <<arg, res>>
integration == <<registry, coordinator, entities, result, setups, cycle>>
vars == <<session, tasks, pc, cmd, locals, exc, sent, wire, device, objects,
          pure, integration>>

Min(a, b) == IF a < b THEN a ELSE b

(***************************************************************************)
(* The for loop of _exec_cmd over one read result `data`, started with the *)
(* locals ls (lines) and lb (linebytes).  bytes.decode("ascii") keeps the  *)
(* codes below 128 and raises UnicodeDecodeError on any other byte.        *)
(***************************************************************************)
DecodeFails(bs) == \E i \in 1..Len(bs) : bs[i] >= 128

\* the first index from i on whose byte is CR or LF, Len(data) + 1 if none
NextEnd(data, i) ==
    IF \E j \in i..Len(data) : data[j] \in {CR, LF}
    THEN CHOOSE j \in i..Len(data) :
            /\ data[j] \in {CR, LF}
            /\ \A m \in i..(j - 1) : data[m] \notin {CR, LF}
    ELSE Len(data) + 1

\* for i in data: ...  with the locals lines = ls and linebytes = lb; the
\* bytes up to the next CR or LF are appended to linebytes one by one, taken
\* here in one step
RECURSIVE FeedFrom(_, _, _, _)
RECURSIVE FeedEnd(_, _, _, _)
FeedTo(ls, lb, data, i, j) ==
    IF j > Len(data)
    THEN [lines |-> ls, linebytes |-> lb \o SubSeq(data, i, Len(data)),
          exc |-> NoExc]
    ELSE FeedEnd(ls, lb \o SubSeq(data, i, j - 1), data, j)

\* the byte at j is CR or LF
FeedEnd(ls, lb, data, j) ==
    IF Len(lb) > 0
    THEN IF DecodeFails(lb)
         THEN [lines |-> ls, linebytes |-> lb, exc |-> "UnicodeDecodeError"]
         ELSE IF lb \notin END_PROMPTS
              THEN FeedFrom(Append(ls, lb), <<>>, data, j + 1)
              ELSE FeedFrom(ls, <<>>, data, j + 1)
    ELSE FeedFrom(ls, lb, data, j + 1)

FeedFrom(ls, lb, data, i) ==
    IF i > Len(data)
    THEN [lines |-> ls, linebytes |-> lb, exc |-> NoExc]
    ELSE FeedTo(ls, lb, data, i, NextEnd(data, i))

Feed(ls, lb, data) == FeedFrom(ls, lb, data, 1)

\* a validation that leaves out the `@` check: C3 must tell it from the code
ValidatedNoAt(ls, k) ==
    IF ls = <<>> THEN [exc |-> "IndexError", ret |-> <<>>]
    ELSE IF Head(ls) # k THEN [exc |-> "ValueError", ret |-> <<>>]
    ELSE IF Tail(ls) = <<>> THEN [exc |-> "IndexError", ret |-> <<>>]
    ELSE [exc |-> NoExc, ret |-> Tail(Tail(ls))]

(***************************************************************************)
(* The two pops after the loop: the echoed command, then "@".              *)
(***************************************************************************)
Validated(ls, k) ==
    IF ls = <<>> THEN [exc |-> "IndexError", ret |-> <<>>]
    ELSE IF Head(ls) # k THEN [exc |-> "ValueError", ret |-> <<>>]
    ELSE IF Tail(ls) = <<>> THEN [exc |-> "IndexError", ret |-> <<>>]
    ELSE IF Head(Tail(ls)) # At THEN [exc |-> "ValueError", ret |-> <<>>]
    ELSE [exc |-> NoExc, ret |-> Tail(Tail(ls))]


(***************************************************************************)
(* Python's str operations used by the decoders, on lines as sequences of  *)
(* character codes.                                                        *)
(***************************************************************************)
WhiteSpace == {9, 10, 11, 12, 13, 32}       \* what str.split() and int() skip
Digits == 48..57                            \* 0 .. 9
ColonStr == <<58>>                          \* ":"
MilliAmp == <<109, 65>>                     \* "mA"
PercentStr == <<37>>                        \* "%"

\* s.find(t), counted from 1; 0 when t is not in s
RECURSIVE FindFrom(_, _, _)
FindFrom(s, t, i) ==
    IF i + Len(t) - 1 > Len(s)
    THEN 0
    ELSE IF \A j \in 1..Len(t) : s[i + j - 1] = t[j]
         THEN i
         ELSE FindFrom(s, t, i + 1)

\* s.index(t), counted from 1; 0 where Python raises ValueError
IndexOf(s, t) == FindFrom(s, t, 1)

\* t in s
Contains(s, t) == IndexOf(s, t) # 0

\* s.startswith(t)
StartsWith(s, t) == Len(s) >= Len(t) /\ SubSeq(s, 1, Len(t)) = t

\* s.split(t): the pieces between the occurrences of t
RECURSIVE SplitOn(_, _)
SplitOn(s, t) ==
    LET i == IndexOf(s, t) IN
    IF i = 0
    THEN <<s>>
    ELSE <<SubSeq(s, 1, i - 1)>> \o SplitOn(SubSeq(s, i + Len(t), Len(s)), t)

\* s.replace(t, "")
RECURSIVE Remove(_, _)
Remove(s, t) ==
    LET i == IndexOf(s, t) IN
    IF i = 0
    THEN s
    ELSE SubSeq(s, 1, i - 1) \o Remove(SubSeq(s, i + Len(t), Len(s)), t)

\* s.split(): the maximal runs of non-whitespace characters
RECURSIVE SplitFrom(_, _, _, _)
SplitFrom(s, i, tok, acc) ==
    IF i > Len(s)
    THEN IF tok = <<>> THEN acc ELSE Append(acc, tok)
    ELSE IF s[i] \in WhiteSpace
         THEN SplitFrom(s, i + 1, <<>>, IF tok = <<>> THEN acc ELSE Append(acc, tok))
         ELSE SplitFrom(s, i + 1, Append(tok, s[i]), acc)

Split(s) == SplitFrom(s, 1, <<>>, <<>>)

\* s.strip()
RECURSIVE LStrip(_)
LStrip(s) ==
    IF s # <<>> /\ Head(s) \in WhiteSpace THEN LStrip(Tail(s)) ELSE s

RECURSIVE RStrip(_)
RStrip(s) ==
    IF s # <<>> /\ s[Len(s)] \in WhiteSpace
    THEN RStrip(SubSeq(s, 1, Len(s) - 1))
    ELSE s

RECURSIVE DigitsValue(_)
DigitsValue(d) ==
    IF d = <<>>
    THEN 0
    ELSE DigitsValue(SubSeq(d, 1, Len(d) - 1)) * 10 + (d[Len(d)] - 48)

\* int(s): surrounding whitespace, an optional sign, decimal digits
\* (digit-group underscores and non-ASCII digits are not in any input here)
Signed(t) == t # <<>> /\ Head(t) \in {43, 45}

IntOfDigits(negative, d) ==
    IF d # <<>> /\ \A i \in 1..Len(d) : d[i] \in Digits
    THEN [ok |-> TRUE,
          n |-> IF negative THEN 0 - DigitsValue(d) ELSE DigitsValue(d)]
    ELSE [ok |-> FALSE, n |-> 0]

IntOfStripped(t) ==
    IntOfDigits(Signed(t) /\ Head(t) = 45, IF Signed(t) THEN Tail(t) ELSE t)

ParseInt(s) == IntOfStripped(RStrip(LStrip(s)))

\* str(n) for n >= 0: what the device prints for a number
RECURSIVE Dec(_)
Dec(n) == IF n < 10 THEN <<48 + n>> ELSE Dec(n \div 10) \o <<48 + (n % 10)>>

\* " ".join(tokens)
RECURSIVE JoinFrom(_, _)
JoinFrom(toks, i) ==
    IF i > Len(toks) THEN <<>>
    ELSE IF i = Len(toks) THEN toks[i]
    ELSE toks[i] \o <<32>> \o JoinFrom(toks, i + 1)

Join(toks) == JoinFrom(toks, 1)

(***************************************************************************)
(* Sensor values.  Sensor.value is None (<<>>), a str, an int, or the      *)
(* float int(text) / divider, kept as numerator and divider.               *)
(***************************************************************************)
Null == <<>>
StrVal(s) == <<"str", s>>
IntVal(n) == <<"int", n>>
FloatVal(n, d) == <<"float", n, d>>

\* what a decoder or parser gives: the exception it raised, or its value
Ok(v) == [exc |-> NoExc, value |-> v]
Raise(e) == [exc |-> e, value |-> Null]

\* int(text), and int(text) / divider
IntOf(r) == IF r.ok THEN Ok(IntVal(r.n)) ELSE Raise("ValueError")
ScaledInt(r, divider) ==
    IF r.ok THEN Ok(FloatVal(r.n, divider)) ELSE Raise("ValueError")
Scaled(text, divider) == ScaledInt(ParseInt(text), divider)

\* Text.set, Integer.set, Percent.set, Current.set, Voltage.set,
\* ChargeAh.set, ChargeWh.set, Temp.set
Set(kind, text, divider) ==
    CASE kind = "Text" -> Ok(StrVal(text))
      [] kind = "Integer" -> IntOf(ParseInt(text))
      [] kind = "Percent" -> IntOf(ParseInt(Remove(text, PercentStr)))
      [] kind = "Current" ->
            Scaled(IF ParseInt(text).ok THEN text ELSE Remove(text, MilliAmp),
                   divider)
      [] kind \in {"Voltage", "ChargeAh", "ChargeWh"} -> Scaled(text, divider)
      [] kind = "Temp" -> Scaled(text, 1000)

\* Sensor.setValue / Voltage.setValue: set(source[source.index(":") + 1:])
SetAfter(kind, line, i, divider) ==
    IF i = 0
    THEN Raise("ValueError")
    ELSE Set(kind, SubSeq(line, i + 1, Len(line)), divider)

SetValue(kind, line, divider) ==
    SetAfter(kind, line, IndexOf(line, ColonStr), divider)

(***************************************************************************)
(* The command parsers.  A parsed object is a function from attribute      *)
(* names to values; a parser gives [exc, value], value Null when it raised.*)
(* The constructors run their statements in source order on the object     *)
(* built so far (acc) and stop at the first statement that raises.         *)
(***************************************************************************)
NoFields == [f \in {} |-> Null]
With(rec, f, v) == (f :> v) @@ rec

\* self.<f> = the value a decoder gave, unless it raised
Store(acc, f, r) ==
    IF r.exc # NoExc THEN Raise(r.exc) ELSE Ok(With(acc.value, f, r.value))

\* rows kept in stream order: C24 must tell it from the code
InsertedAtEnd(acc, r) ==
    IF r.exc # NoExc
    THEN Raise(r.exc)
    ELSE Ok(With(acc.value, "values", acc.value["values"] \o <<r.value>>))

\* self.values.insert(0, row) and self.values.append(row)
Inserted(acc, r) ==
    IF r.exc # NoExc
    THEN Raise(r.exc)
    ELSE Ok(With(acc.value, "values", <<r.value>> \o acc.value["values"]))

Appended(acc, r) ==
    IF r.exc # NoExc
    THEN Raise(r.exc)
    ELSE Ok(With(acc.value, "values", Append(acc.value["values"], r.value)))

\* self.values = []
Listed(h) == IF h.exc # NoExc THEN h ELSE Ok(With(h.value, "values", <<>>))

\* X("name").set(chunks[at])
Cell(kind, chunks, at, divider) ==
    IF at >= Len(chunks)
    THEN Raise("IndexError")
    ELSE Set(kind, chunks[at + 1], divider)

\* X("name").set(chunks[at]) for the entries of a table, in source order
RECURSIVE SetChunks(_, _, _, _)
SetChunks(chunks, tab, i, acc) ==
    IF acc.exc # NoExc \/ i > Len(tab)
    THEN acc
    ELSE SetChunks(chunks, tab, i + 1,
                   Store(acc, tab[i].field,
                         Cell(tab[i].kind, chunks, tab[i].at, tab[i].divider)))

\* X("name").setValue(lines[at])
Line(kind, ls, at, divider) ==
    IF at >= Len(ls)
    THEN Raise("IndexError")
    ELSE SetValue(kind, ls[at + 1], divider)

\* X("name").setValue(lines[at]) for the entries of a table, in source order
RECURSIVE SetLines(_, _, _, _)
SetLines(ls, tab, i, acc) ==
    IF acc.exc # NoExc \/ i > Len(tab)
    THEN acc
    ELSE SetLines(ls, tab, i + 1,
                  Store(acc, tab[i].field,
                        Line(tab[i].kind, ls, tab[i].at, tab[i].divider)))

\* UnitValues.__init__: the chunk of every attribute
UnitTable ==
    <<
     [field |-> "position", kind |-> "Integer", at |-> 0, divider |-> 1],
     [field |-> "volt", kind |-> "Voltage", at |-> 1, divider |-> 1000],
     [field |-> "curr", kind |-> "Current", at |-> 2, divider |-> 1000],
     [field |-> "temp", kind |-> "Temp", at |-> 3, divider |-> 1000],
     [field |-> "cell_temp_low", kind |-> "Temp", at |-> 4, divider |-> 1000],
     [field |-> "cell_temp_high", kind |-> "Temp", at |-> 5, divider |-> 1000],
     [field |-> "cell_volt_low", kind |-> "Voltage", at |-> 6, divider |-> 1000],
     [field |-> "cell_volt_high", kind |-> "Voltage", at |-> 7, divider |-> 1000],
     [field |-> "base_state", kind |-> "Text", at |-> 8, divider |-> 1],
     [field |-> "volt_state", kind |-> "Text", at |-> 9, divider |-> 1],
     [field |-> "temp_state", kind |-> "Text", at |-> 10, divider |-> 1],
     [field |-> "charge_ah_perc", kind |-> "Percent", at |-> 11, divider |-> 1],
     [field |-> "charge_ah", kind |-> "ChargeAh", at |-> 12, divider |-> 1000],
     [field |-> "charge_wh_perc", kind |-> "Percent", at |-> 14, divider |-> 1],
     [field |-> "charge_wh_wh", kind |-> "ChargeWh", at |-> 15, divider |-> 1]
    >>

\* self.position.value = nr_of_units - self.position.value
Position(nr_of_units, raw) == nr_of_units - raw

Positioned(r, nr_of_units) ==
    IF r.exc # NoExc
    THEN r
    ELSE Ok(With(r.value, "position",
                 IntVal(Position(nr_of_units, r.value["position"][2]))))

UnitValues(line, nr_of_units) ==
    Positioned(SetChunks(Split(line), UnitTable, 1, Ok(NoFields)), nr_of_units)

\* for line in lines[2:]: self.values.insert(0, UnitValues(line, nr_of_units))
RECURSIVE UnitRows(_, _, _, _)
UnitRows(ls, i, nr_of_units, acc) ==
    IF acc.exc # NoExc \/ i > Len(ls)
    THEN acc
    ELSE UnitRows(ls, i + 1, nr_of_units,
                  Inserted(acc, UnitValues(ls[i], nr_of_units)))

\* UnitCommand.__init__: nr_of_units = len(lines) - 1
UnitCommand(ls) == UnitRows(ls, 3, Len(ls) - 1, Listed(Ok(NoFields)))

\* header lines read with dc_voltage and bat_voltage exchanged: C17 must tell
\* it from the code
PwrHeadersSwapped ==
    <<
     [field |-> "avg_temp", kind |-> "Temp", at |-> 0, divider |-> 1000],
     [field |-> "dc_voltage", kind |-> "Voltage", at |-> 2, divider |-> 1000],
     [field |-> "bat_voltage", kind |-> "Voltage", at |-> 1, divider |-> 1000]
    >>

\* PwrCommand.__init__: the three header lines, then the chunks of lines[4]
PwrHeaders ==
    <<
     [field |-> "avg_temp", kind |-> "Temp", at |-> 0, divider |-> 1000],
     [field |-> "dc_voltage", kind |-> "Voltage", at |-> 1, divider |-> 1000],
     [field |-> "bat_voltage", kind |-> "Voltage", at |-> 2, divider |-> 1000]
    >>

PwrTable ==
    <<
     [field |-> "volt", kind |-> "Voltage", at |-> 0, divider |-> 1000],
     [field |-> "curr", kind |-> "Current", at |-> 1, divider |-> 1000],
     [field |-> "temp", kind |-> "Temp", at |-> 2, divider |-> 1000],
     [field |-> "cell_temp_low", kind |-> "Temp", at |-> 3, divider |-> 1000],
     [field |-> "cell_temp_high", kind |-> "Temp", at |-> 4, divider |-> 1000],
     [field |-> "cell_volt_low", kind |-> "Voltage", at |-> 5, divider |-> 1000],
     [field |-> "cell_bolt_high", kind |-> "Voltage", at |-> 6, divider |-> 1000],
     [field |-> "unit_temp_low", kind |-> "Temp", at |-> 7, divider |-> 1000],
     [field |-> "unit_temp_high", kind |-> "Temp", at |-> 8, divider |-> 1000],
     [field |-> "unit_volt_low", kind |-> "Voltage", at |-> 9, divider |-> 1000],
     [field |-> "unit_volt_high", kind |-> "Voltage", at |-> 10, divider |-> 1000],
     [field |-> "base_state", kind |-> "Text", at |-> 11, divider |-> 1],
     [field |-> "volt_state", kind |-> "Text", at |-> 12, divider |-> 1],
     [field |-> "curr_state", kind |-> "Text", at |-> 13, divider |-> 1],
     [field |-> "temp_state", kind |-> "Text", at |-> 14, divider |-> 1],
     [field |-> "charge_ah_perc", kind |-> "Percent", at |-> 15, divider |-> 1],
     [field |-> "charge_ah", kind |-> "ChargeAh", at |-> 16, divider |-> 1000],
     [field |-> "charge_wh_perc", kind |-> "Percent", at |-> 18, divider |-> 1],
     [field |-> "charge_wh_wh", kind |-> "ChargeWh", at |-> 19, divider |-> 1],
     [field |-> "cell_volt_state", kind |-> "Text", at |-> 23, divider |-> 1],
     [field |-> "cell_temp_state", kind |-> "Text", at |-> 24, divider |-> 1],
     [field |-> "unit_volt_state", kind |-> "Text", at |-> 25, divider |-> 1],
     [field |-> "unit_temp_state", kind |-> "Text", at |-> 26, divider |-> 1],
     [field |-> "error_code", kind |-> "Text", at |-> 27, divider |-> 1]
    >>

\* chunks = lines[4].split() and the chunk of every attribute
PwrRow(ls, h) ==
    IF h.exc # NoExc
    THEN h
    ELSE IF Len(ls) < 5
         THEN Raise("IndexError")
         ELSE SetChunks(Split(ls[5]), PwrTable, 1, h)

PwrCommand(ls) == PwrRow(ls, SetLines(ls, PwrHeaders, 1, Ok(NoFields)))

\* BatValues.__init__: the chunk of every attribute
BatTable ==
    <<
     [field |-> "volt", kind |-> "Voltage", at |-> 1, divider |-> 1000],
     [field |-> "curr", kind |-> "Current", at |-> 2, divider |-> 1000],
     [field |-> "tempr", kind |-> "Temp", at |-> 3, divider |-> 1000],
     [field |-> "v_state", kind |-> "Text", at |-> 4, divider |-> 1],
     [field |-> "t_state", kind |-> "Text", at |-> 5, divider |-> 1],
     [field |-> "charge_ah_perc", kind |-> "Percent", at |-> 6, divider |-> 1],
     [field |-> "charge_ah", kind |-> "ChargeAh", at |-> 7, divider |-> 1000],
     [field |-> "charge_wh_perc", kind |-> "Percent", at |-> 8, divider |-> 1],
     [field |-> "charge_wh", kind |-> "ChargeWh", at |-> 9, divider |-> 1000],
     [field |-> "bal", kind |-> "Text", at |-> 10, divider |-> 1]
    >>

BatValues(line, unit) ==
    SetChunks(Split(line), BatTable, 1,
              Ok(With(NoFields, "unit", IntVal(unit))))

\* a cell count that starts one row too high: C14 must tell it from the code
FirstCellOneMore(n) == n - 7

\* cell = len(lines) - 8
FirstCell(n) == n - 8

\* int(cell / 15), cell >= 0 whenever there is a row
UnitOfCell(cell) == cell \div CellsPerUnit

\* for line in lines[7:]: BatValues(line, int(cell / 15)); cell = cell - 1
RECURSIVE BatRows(_, _, _, _)
BatRows(ls, i, cell, acc) ==
    IF acc.exc # NoExc \/ i > Len(ls)
    THEN acc
    ELSE BatRows(ls, i + 1, cell - 1,
                 Appended(acc, BatValues(ls[i], UnitOfCell(cell))))

\* BatCommand.__init__: five header lines, then the cell rows
BatHeaders ==
    <<
     [field |-> "avg_temp", kind |-> "Temp", at |-> 1, divider |-> 1000],
     [field |-> "charge_curr", kind |-> "Current", at |-> 2, divider |-> 1000],
     [field |-> "discharge_curr", kind |-> "Current", at |-> 3, divider |-> 1000],
     [field |-> "b_state", kind |-> "Text", at |-> 4, divider |-> 1],
     [field |-> "bal_volt", kind |-> "Voltage", at |-> 5, divider |-> 10]
    >>

BatCommand(ls) ==
    BatRows(ls, 8, FirstCell(Len(ls)),
            Listed(SetLines(ls, BatHeaders, 1, Ok(NoFields))))

(***************************************************************************)
(* InfoCommand of PylontechBMS: labelled lines taken by fetch, then the    *)
(* Module / PCBA lines.                                                    *)
(***************************************************************************)
\* a fetch that pops the head line whether or not the label is in it: C15
\* must tell it from the code
FetchAlwaysPops(kind, source, lookup) ==
    IF source = <<>>
    THEN [exc |-> "IndexError", value |-> Null, source |-> source]
    ELSE [exc |-> NoExc, value |-> Null, source |-> Tail(source)]

\* self.value = int(...), source.pop(0)
FetchedInt(source, r) ==
    IF r.ok
    THEN [exc |-> NoExc, value |-> IntVal(r.n), source |-> Tail(source)]
    ELSE [exc |-> "ValueError", value |-> Null, source |-> source]

\* source[0].split(":")[1], as text or through int()
Fetched(kind, source, pieces) ==
    IF Len(pieces) < 2
    THEN [exc |-> "IndexError", value |-> Null, source |-> source]
    ELSE IF kind = "Text"
         THEN [exc |-> NoExc, value |-> StrVal(pieces[2]),
               source |-> Tail(source)]
         ELSE FetchedInt(source,
                         ParseInt(IF kind = "Current"
                                  THEN Remove(pieces[2], MilliAmp)
                                  ELSE pieces[2]))

\* Text.fetch, Integer.fetch, Current.fetch on a sensor whose value is None
Fetch(kind, source, lookup) ==
    IF source = <<>>
    THEN [exc |-> "IndexError", value |-> Null, source |-> source]
    ELSE IF ~Contains(source[1], lookup)
         THEN [exc |-> NoExc, value |-> Null, source |-> source]
         ELSE Fetched(kind, source, SplitOn(source[1], ColonStr))

\* InfoCommand.__init__: the fields in the order they are fetched
InfoFields ==
    <<
     \* Device address
     [field |-> "device_address", kind |-> "Integer", lookup |-> <<68, 101,
       118, 105, 99, 101, 32, 97, 100, 100, 114, 101, 115, 115>>],
     \* Manufacturer
     [field |-> "manufacturer", kind |-> "Text", lookup |-> <<77, 97, 110,
       117, 102, 97, 99, 116, 117, 114, 101, 114>>],
     \* Device name
     [field |-> "device_name", kind |-> "Text", lookup |-> <<68, 101, 118,
       105, 99, 101, 32, 110, 97, 109, 101>>],
     \* Board version
     [field |-> "board_version", kind |-> "Text", lookup |-> <<66, 111, 97,
       114, 100, 32, 118, 101, 114, 115, 105, 111, 110>>],
     \* Hard  version
     [field |-> "hard_version", kind |-> "Text", lookup |-> <<72, 97, 114,
       100, 32, 32, 118, 101, 114, 115, 105, 111, 110>>],
     \* Main Soft version
     [field |-> "main_sw_version", kind |-> "Text", lookup |-> <<77, 97, 105,
       110, 32, 83, 111, 102, 116, 32, 118, 101, 114, 115, 105, 111, 110>>],
     \* Soft  version
     [field |-> "sw_version", kind |-> "Text", lookup |-> <<83, 111, 102,
       116, 32, 32, 118, 101, 114, 115, 105, 111, 110>>],
     \* Boot  version
     [field |-> "boot_version", kind |-> "Text", lookup |-> <<66, 111, 111,
       116, 32, 32, 118, 101, 114, 115, 105, 111, 110>>],
     \* Comm version
     [field |-> "comm_version", kind |-> "Text", lookup |-> <<67, 111, 109,
       109, 32, 118, 101, 114, 115, 105, 111, 110>>],
     \* Release Date
     [field |-> "release_date", kind |-> "Text", lookup |-> <<82, 101, 108,
       101, 97, 115, 101, 32, 68, 97, 116, 101>>],
     \* Barcode
     [field |-> "barcode", kind |-> "Text", lookup |-> <<66, 97, 114, 99,
       111, 100, 101>>],
     \* PCBA Barcode
     [field |-> "pcba_barcode", kind |-> "Text", lookup |-> <<80, 67, 66, 65,
       32, 66, 97, 114, 99, 111, 100, 101>>],
     \* Module Barcode
     [field |-> "module_barcode", kind |-> "Text", lookup |-> <<77, 111, 100,
       117, 108, 101, 32, 66, 97, 114, 99, 111, 100, 101>>],
     \* PowerSupply Barcode
     [field |-> "pwr_supply_barcode", kind |-> "Text", lookup |-> <<80, 111,
       119, 101, 114, 83, 117, 112, 112, 108, 121, 32, 66, 97, 114, 99, 111,
       100, 101>>],
     \* Device Test Time
     [field |-> "device_test_time", kind |-> "Text", lookup |-> <<68, 101,
       118, 105, 99, 101, 32, 84, 101, 115, 116, 32, 84, 105, 109, 101>>],
     \* Specification
     [field |-> "specification", kind |-> "Text", lookup |-> <<83, 112, 101,
       99, 105, 102, 105, 99, 97, 116, 105, 111, 110>>],
     \* Cell Number
     [field |-> "cell_number", kind |-> "Integer", lookup |-> <<67, 101, 108,
       108, 32, 78, 117, 109, 98, 101, 114>>],
     \* Max Dischg Curr
     [field |-> "max_discharge_current", kind |-> "Current", lookup |-> <<77,
       97, 120, 32, 68, 105, 115, 99, 104, 103, 32, 67, 117, 114, 114>>],
     \* Max Charge Curr
     [field |-> "max_charge_current", kind |-> "Current", lookup |-> <<77,
       97, 120, 32, 67, 104, 97, 114, 103, 101, 32, 67, 117, 114, 114>>],
     \* Shut Circuit
     [field |-> "shut_circuit", kind |-> "Text", lookup |-> <<83, 104, 117,
       116, 32, 67, 105, 114, 99, 117, 105, 116>>],
     \* Relay Feedback
     [field |-> "relay_feedback", kind |-> "Text", lookup |-> <<82, 101, 108,
       97, 121, 32, 70, 101, 101, 100, 98, 97, 99, 107>>],
     \* New Board
     [field |-> "new_board", kind |-> "Text", lookup |-> <<78, 101, 119, 32,
       66, 111, 97, 114, 100>>]
    >>

\* self.<f> = X("name").fetch(lines, lookup): the value and the lines left
Kept(acc, f, r) ==
    IF r.exc # NoExc
    THEN [exc |-> r.exc, value |-> Null, source |-> acc.source]
    ELSE [exc |-> NoExc, value |-> With(acc.value, f, r.value),
          source |-> r.source]

\* the fetches one after the other; each one starts from the value and the
\* lines the one before has left (a, taken from a one-element set)
RECURSIVE FetchAll(_, _)
FetchAll(i, acc) ==
    IF acc.exc # NoExc \/ i > Len(InfoFields)
    THEN acc
    ELSE CHOOSE out \in
             {FetchAll(i + 1, a) :
                 a \in {Kept(acc, InfoFields[i].field,
                              Fetch(InfoFields[i].kind, acc.source,
                                    InfoFields[i].lookup))}} : TRUE

ModuleStr == <<77, 111, 100, 117, 108, 101>>                  \* Module
PcbaStr == <<80, 67, 66, 65>>                                \* PCBA

\* self.<f>.insert(0, line.split()[2])
InsertChunk(acc, f, chunks) ==
    IF Len(chunks) < 3
    THEN Raise("IndexError")
    ELSE Ok(With(acc.value, f, <<chunks[3]>> \o acc.value[f]))

\* the two startswith tests on one line
BmuLine(acc, line) ==
    IF StartsWith(line, ModuleStr)
    THEN InsertChunk(acc, "bmu_modules", Split(line))
    ELSE IF StartsWith(line, PcbaStr)
         THEN InsertChunk(acc, "bmu_pcbas", Split(line))
         ELSE acc

\* for line in ...: one line after the other
RECURSIVE Bmus(_, _, _)
Bmus(ls, i, acc) ==
    IF acc.exc # NoExc \/ i > Len(ls)
    THEN acc
    ELSE Bmus(ls, i + 1, BmuLine(acc, ls[i]))

\* self.bmu_modules = [], self.bmu_pcbas = []
NoBmus(rec) == With(With(rec, "bmu_modules", <<>>), "bmu_pcbas", <<>>)

InfoModules(f) ==
    IF f.exc # NoExc
    THEN Raise(f.exc)
    ELSE Bmus(f.source, 1, Ok(NoBmus(f.value)))

InfoCommand(ls) ==
    InfoModules(FetchAll(1, [exc |-> NoExc, value |-> NoFields,
                             source |-> ls]))

(***************************************************************************)
(* InfoCommand of PylontechConsole: fixed lines and chunks, then the       *)
(* Module / PCBA lines from line 20 on.                                    *)
(***************************************************************************)
ConsoleInfoFields ==
    <<
     [field |-> "device_address", kind |-> "Integer", line |-> 0, at |-> 3,
      divider |-> 1000],
     [field |-> "manufacturer", kind |-> "Text", line |-> 1, at |-> 2,
      divider |-> 1000],
     [field |-> "device_name", kind |-> "Text", line |-> 2, at |-> 3,
      divider |-> 1000],
     [field |-> "board_version", kind |-> "Text", line |-> 3, at |-> 3,
      divider |-> 1000],
     [field |-> "main_sw_version", kind |-> "Text", line |-> 4, at |-> 4,
      divider |-> 1000],
     [field |-> "sw_version", kind |-> "Text", line |-> 5, at |-> 3,
      divider |-> 1000],
     [field |-> "boot_version", kind |-> "Text", line |-> 6, at |-> 3,
      divider |-> 1000],
     [field |-> "comm_version", kind |-> "Text", line |-> 7, at |-> 3,
      divider |-> 1000],
     [field |-> "release_date", kind |-> "Text", line |-> 8, at |-> 3,
      divider |-> 1000],
     [field |-> "pcba_barcode", kind |-> "Text", line |-> 10, at |-> 3,
      divider |-> 1000],
     [field |-> "module_barcode", kind |-> "Text", line |-> 11, at |-> 3,
      divider |-> 1000],
     [field |-> "pwr_supply_barcode", kind |-> "Text", line |-> 12, at |-> 3,
      divider |-> 1000],
     [field |-> "device_test_time", kind |-> "Text", line |-> 13, at |-> 4,
      divider |-> 1000],
     [field |-> "specification", kind |-> "Text", line |-> 14, at |-> 2,
      divider |-> 1000],
     [field |-> "cell_number", kind |-> "Integer", line |-> 15, at |-> 3,
      divider |-> 1000],
     [field |-> "max_discharge_current", kind |-> "Current", line |-> 16, at |-> 4,
      divider |-> 1000],
     [field |-> "max_charge_current", kind |-> "Current", line |-> 17, at |-> 4,
      divider |-> 1000],
     [field |-> "shut_circuit", kind |-> "Text", line |-> 18, at |-> 3,
      divider |-> 1000],
     [field |-> "relay_feedback", kind |-> "Text", line |-> 19, at |-> 3,
      divider |-> 1000]
    >>

\* X("name").set(lines[line].split()[at])
CellOf(kind, ls, line, at, divider) ==
    IF line >= Len(ls)
    THEN Raise("IndexError")
    ELSE Cell(kind, Split(ls[line + 1]), at, divider)

\* X("name").set(lines[line].split()[at]) for the entries of a table
RECURSIVE SetCells(_, _, _, _)
SetCells(ls, tab, i, acc) ==
    IF acc.exc # NoExc \/ i > Len(tab)
    THEN acc
    ELSE SetCells(ls, tab, i + 1,
                  Store(acc, tab[i].field,
                        CellOf(tab[i].kind, ls, tab[i].line, tab[i].at,
                               tab[i].divider)))

\* bmus = lines[20:] and the loop over them
ConsoleModules(ls, f) ==
    IF f.exc # NoExc THEN f ELSE Bmus(ls, 21, Ok(NoBmus(f.value)))

ConsoleInfoCommand(ls) ==
    ConsoleModules(ls, SetCells(ls, ConsoleInfoFields, 1, Ok(NoFields)))

(***************************************************************************)
(* UnitCommand, PwrCommand and BatCommand of PylontechConsole.             *)
(***************************************************************************)
ConsoleUnitTable ==
    <<
     [field |-> "index", kind |-> "Integer", at |-> 0, divider |-> 1],
     [field |-> "volt", kind |-> "Voltage", at |-> 1, divider |-> 1000],
     [field |-> "curr", kind |-> "Current", at |-> 2, divider |-> 1000],
     [field |-> "temp", kind |-> "Temp", at |-> 3, divider |-> 1000],
     [field |-> "cell_temp_low", kind |-> "Temp", at |-> 4, divider |-> 1000],
     [field |-> "cell_temp_high", kind |-> "Temp", at |-> 5, divider |-> 1000],
     [field |-> "cell_volt_low", kind |-> "Voltage", at |-> 6, divider |-> 1000],
     [field |-> "cell_bolt_high", kind |-> "Voltage", at |-> 7, divider |-> 1000],
     [field |-> "base_state", kind |-> "Text", at |-> 8, divider |-> 1],
     [field |-> "volt_state", kind |-> "Text", at |-> 9, divider |-> 1],
     [field |-> "temp_state", kind |-> "Text", at |-> 10, divider |-> 1],
     [field |-> "charge_ah_perc", kind |-> "Percent", at |-> 11, divider |-> 1],
     [field |-> "charge_ah", kind |-> "ChargeAh", at |-> 12, divider |-> 1000],
     [field |-> "charge_wh_perc", kind |-> "Percent", at |-> 14, divider |-> 1],
     [field |-> "charge_wh_wh", kind |-> "ChargeWh", at |-> 15, divider |-> 1]
    >>

\* for line in lines[2:]: self.values.append(UnitValues(line))
RECURSIVE ConsoleUnitRows(_, _, _)
ConsoleUnitRows(ls, i, acc) ==
    IF acc.exc # NoExc \/ i > Len(ls)
    THEN acc
    ELSE ConsoleUnitRows(ls, i + 1,
                         Appended(acc, SetChunks(Split(ls[i]), ConsoleUnitTable,
                                                 1, Ok(NoFields))))

ConsoleUnitCommand(ls) == ConsoleUnitRows(ls, 3, Listed(Ok(NoFields)))

ConsolePwrHeaders ==
    <<
     [field |-> "avg_temp", kind |-> "Temp", line |-> 0, at |-> 2,
      divider |-> 1000],
     [field |-> "dc_voltage", kind |-> "Voltage", line |-> 1, at |-> 3,
      divider |-> 1000],
     [field |-> "bat_voltage", kind |-> "Voltage", line |-> 2, at |-> 3,
      divider |-> 1000]
    >>

ConsolePwrCommand(ls) ==
    PwrRow(ls, SetCells(ls, ConsolePwrHeaders, 1, Ok(NoFields)))

ConsoleBatHeaders ==
    <<
     [field |-> "avg_temp", kind |-> "Temp", line |-> 1, at |-> 1,
      divider |-> 1000],
     [field |-> "charge_curr", kind |-> "Current", line |-> 2, at |-> 2,
      divider |-> 1000],
     [field |-> "discharge_curr", kind |-> "Current", line |-> 3, at |-> 2,
      divider |-> 1000],
     [field |-> "b_state", kind |-> "Text", line |-> 4, at |-> 1,
      divider |-> 1],
     [field |-> "bal_volt", kind |-> "Voltage", line |-> 5, at |-> 1,
      divider |-> 10]
    >>

\* BatValues.__init__: chunks kept as text, or int(chunk) / 1000
ConsoleBatTable ==
    <<
     [field |-> "bat", kind |-> "Text", at |-> 0, divider |-> 1],
     [field |-> "volt", kind |-> "Voltage", at |-> 1, divider |-> 1000],
     [field |-> "curr", kind |-> "Voltage", at |-> 2, divider |-> 1000],
     [field |-> "tempr", kind |-> "Voltage", at |-> 3, divider |-> 1000],
     [field |-> "v_state", kind |-> "Text", at |-> 4, divider |-> 1],
     [field |-> "t_state", kind |-> "Text", at |-> 5, divider |-> 1],
     [field |-> "charge_ah_perc", kind |-> "Text", at |-> 6, divider |-> 1],
     [field |-> "charge_ah", kind |-> "Text", at |-> 7, divider |-> 1],
     [field |-> "charge_wh_perc", kind |-> "Text", at |-> 8, divider |-> 1],
     [field |-> "charge_wh", kind |-> "Text", at |-> 9, divider |-> 1],
     [field |-> "bal", kind |-> "Text", at |-> 10, divider |-> 1]
    >>

\* for line in lines[7:]: self.values.append(BatValues(line))
RECURSIVE ConsoleBatRows(_, _, _)
ConsoleBatRows(ls, i, acc) ==
    IF acc.exc # NoExc \/ i > Len(ls)
    THEN acc
    ELSE ConsoleBatRows(ls, i + 1,
                        Appended(acc, SetChunks(Split(ls[i]), ConsoleBatTable,
                                                1, Ok(NoFields))))

ConsoleBatCommand(ls) ==
    ConsoleBatRows(ls, 8, Listed(SetCells(ls, ConsoleBatHeaders, 1,
                                          Ok(NoFields))))

(***************************************************************************)
(* The parser each command method hands the lines of _exec_cmd to.         *)
(***************************************************************************)
ParserOf(i, k, ls) ==
    IF i = "BMS"
    THEN CASE k = CmdInfo -> InfoCommand(ls)
           [] k = CmdPwr -> PwrCommand(ls)
           [] k = CmdUnit -> UnitCommand(ls)
           [] k = CmdBat -> BatCommand(ls)
    ELSE CASE k = CmdInfo -> ConsoleInfoCommand(ls)
           [] k = CmdPwr -> ConsolePwrCommand(ls)
           [] k = CmdUnit -> ConsoleUnitCommand(ls)
           [] k = CmdBat -> ConsoleBatCommand(ls)

\* info() of PylontechBMS: self.bmus = tuple(result.bmu_modules)
BmusAfter(i, k, r) ==
    IF i = "BMS" /\ k = CmdInfo /\ r.exc = NoExc
    THEN r.value["bmu_modules"]
    ELSE bmus

(***************************************************************************)
(* _exec_cmd, one action per stretch between two awaits.                   *)
(***************************************************************************)
Fail(c, e) ==
    /\ pc' = [pc EXCEPT ![c] = "failed"]
    /\ exc' = [exc EXCEPT ![c] = e]

\* a read that is awaited bare in both classes: C7 must tell it from the code
ReadNeverTimesOut(i) == FALSE

\* which awaits of _exec_cmd are wrapped in asyncio.wait_for(..., 2)
DrainTimesOut(i) == i = "BMS"
ReadTimesOut(i) == i = "BMS"

\* a coroutine is suspended in read() with nothing buffered
Waiting(c) == pc[c] = "read" /\ wire = <<>>

\* a write that puts the command bytes on the socket twice: C26 must tell
\* it from the code
WriteTwice(c) ==
    /\ c \in tasks
    /\ pc[c] = "idle"
    /\ IF writer = None
       THEN Fail(c, "AttributeError") /\ sent' = sent
       ELSE /\ sent' = sent \o <<cmd[c] \o <<CR>>, cmd[c] \o <<CR>>>>
            /\ pc' = [pc EXCEPT ![c] = "drain"]
            /\ exc' = exc
    /\ UNCHANGED <<objects, pure, integration>>
    /\ UNCHANGED <<session, tasks, cmd, locals, wire, device>>

\* self.writer.write((cmd + "\r").encode("ascii")), up to `await drain()`
Write(c) ==
    /\ c \in tasks
    /\ pc[c] = "idle"
    /\ IF writer = None
       THEN Fail(c, "AttributeError") /\ sent' = sent
       ELSE /\ sent' = Append(sent, cmd[c] \o <<CR>>)
            /\ pc' = [pc EXCEPT ![c] = "drain"]
            /\ exc' = exc
    /\ UNCHANGED <<objects, pure, integration>>
    /\ UNCHANGED <<session, tasks, cmd, locals, wire, device>>

\* drain() completes; lines = []; linebytes = bytearray()
DrainDone(c) ==
    /\ pc[c] = "drain"
    /\ accepts
    /\ lines' = [lines EXCEPT ![c] = <<>>]
    /\ linebytes' = [linebytes EXCEPT ![c] = <<>>]
    /\ pc' = [pc EXCEPT ![c] = "loop"]
    /\ UNCHANGED <<objects, pure, integration>>
    /\ UNCHANGED <<session, tasks, cmd, framed, ret, parsed, exc, sent, wire,
                   device>>

\* the peer does not take the bytes: wait_for(drain(), 2) raises TimeoutError
DrainTimeout(c) ==
    /\ pc[c] = "drain"
    /\ ~accepts
    /\ DrainTimesOut(impl)
    /\ Fail(c, "TimeoutError")
    /\ UNCHANGED <<objects, pure, integration>>
    /\ UNCHANGED <<session, tasks, cmd, locals, sent, wire, device>>

\* while linebytes != b"pylon>": data = await ... self.reader.read(120)
\* (StreamReader.read raises RuntimeError while another coroutine waits in it)
IssueRead(c) ==
    /\ pc[c] = "loop"
    /\ linebytes[c] # Prompt
    /\ IF \E d \in tasks \ {c} : Waiting(d)
       THEN Fail(c, "RuntimeError")
       ELSE pc' = [pc EXCEPT ![c] = "read"] /\ exc' = exc
    /\ UNCHANGED <<objects, pure, integration>>
    /\ UNCHANGED <<session, tasks, cmd, locals, sent, wire, device>>

\* the sizes read(120) may return: what has arrived, up to 120 bytes
ReadSizes(w) ==
    IF segs = "whole"
    THEN {Min(ReadMax, Len(w))}
    ELSE 1..Min(ReadMax, Len(w))

\* read(120) returns the next k bytes, 1 <= k <= 120, and the for loop runs
ReadDone(c) ==
    /\ pc[c] = "read"
    /\ wire # <<>>
    /\ \E k \in ReadSizes(wire) :
          LET st == Feed(lines[c], linebytes[c], SubSeq(wire, 1, k)) IN
          /\ wire' = SubSeq(wire, k + 1, Len(wire))
          /\ lines' = [lines EXCEPT ![c] = st.lines]
          /\ linebytes' = [linebytes EXCEPT ![c] = st.linebytes]
          /\ IF st.exc # NoExc
             THEN Fail(c, st.exc)
             ELSE pc' = [pc EXCEPT ![c] = "loop"] /\ exc' = exc
    /\ UNCHANGED <<objects, pure, integration>>
    /\ UNCHANGED <<session, tasks, cmd, framed, ret, parsed, sent, device>>

\* the peer has closed the connection: read(120) returns b"" at once, the
\* for loop has nothing to do
ReadEof(c) ==
    /\ pc[c] = "read"
    /\ wire = <<>>
    /\ peer = "closed"
    /\ pc' = [pc EXCEPT ![c] = "loop"]
    /\ UNCHANGED <<objects, pure, integration>>
    /\ UNCHANGED <<session, tasks, cmd, locals, exc, sent, wire, device>>

\* the peer sends nothing more: wait_for(read(120), 2) raises TimeoutError
ReadTimeout(c) ==
    /\ pc[c] = "read"
    /\ wire = <<>>
    /\ peer = "silent"
    /\ ReadTimesOut(impl)
    /\ Fail(c, "TimeoutError")
    /\ UNCHANGED <<objects, pure, integration>>
    /\ UNCHANGED <<session, tasks, cmd, locals, sent, wire, device>>

\* the loop has ended: lines.pop(0) != cmd, lines.pop(0) != "@", return lines
Validate(c) ==
    /\ pc[c] = "loop"
    /\ linebytes[c] = Prompt
    /\ LET v == Validated(lines[c], cmd[c]) IN
          /\ framed' = [framed EXCEPT ![c] = <<lines[c]>>]
          /\ ret' = [ret EXCEPT ![c] = v.ret]
          /\ exc' = [exc EXCEPT ![c] = v.exc]
          /\ pc' = [pc EXCEPT ![c] = IF v.exc = NoExc THEN "returned" ELSE "failed"]
    /\ UNCHANGED <<objects, pure, integration>>
    /\ UNCHANGED <<session, tasks, cmd, lines, linebytes, parsed, sent, wire,
                   device>>

\* bat/info/pwr/unit: the command parser is built from the returned lines;
\* what it raises goes to the caller of the command method
Parse(c) ==
    /\ pc[c] = "returned"
    /\ parse' = [parse EXCEPT ![c] = <<ParserOf(impl, cmd[c], ret[c])>>]
    /\ bmus' = BmusAfter(impl, cmd[c], parse'[c][1])
    /\ pc' = [pc EXCEPT ![c] = IF parse'[c][1].exc = NoExc
                                THEN "done"
                                ELSE "raised"]
    /\ parsed' = [parsed EXCEPT ![c] = TRUE]
    /\ UNCHANGED <<pure, integration>>
    /\ UNCHANGED <<session, tasks, cmd, lines, linebytes, framed, ret, exc,
                   sent, wire, device>>

(***************************************************************************)
(* The responses the peer may send to command k.                           *)
(***************************************************************************)
Terminators == {<<LF>>, <<CR>>, <<CR, LF>>}
DataLine == <<65>>                                             \* A
\* the echo, "@", an end-of-response line and a line that reads like the prompt
LinePool(k) == {k, At, Dollars, Prompt}

RECURSIVE Encode(_, _)
Encode(ls, ts) ==
    IF ls = <<>> THEN <<>> ELSE Head(ls) \o Head(ts) \o Encode(Tail(ls), Tail(ts))

\* any lines, any mix of terminators, then the prompt
Arbitrary(k) ==
    UNION {{[src |-> ls, bytes |-> Encode(ls, ts) \o Prompt] :
               ls \in [1..n -> LinePool(k)], ts \in [1..n -> Terminators]} :
           n \in 0..MaxLines}

\* echo, "@", data lines, both end-of-response lines, then the prompt
WellFormed(k) ==
    UNION {{[src |-> <<k, At>> \o body \o <<EndOk, Dollars>>,
             bytes |-> Encode(<<k, At>> \o body \o <<EndOk, Dollars>>,
                              [i \in 1..(n + 4) |-> t]) \o Prompt] :
               body \in [1..n -> {DataLine, Prompt}], t \in Terminators} :
           n \in 0..MaxBody}

Responses(k) == Arbitrary(k) \cup WellFormed(k)

NoCall == [c \in Callers |-> <<>>]
NoArg == [fn |-> "none"]
NoLast == [op |-> "none", exc |-> NoExc, reader |-> None, writer |-> None,
           conns |-> {}]

\* no config entry has been set up: no coordinator, nothing registered
NoCoordinator ==
    [unit_device_infos |-> <<>>, unit_positions |-> <<>>,
     sensors |-> {}, unit_sensors |-> {}, bat_sensors |-> {}]
NoCycle == [op |-> "none", at |-> 0, awaiting |-> FALSE, exc |-> NoExc]
NoIntegration ==
    /\ registry = {}
    /\ coordinator = NoCoordinator
    /\ entities = {}
    /\ result = <<>>
    /\ setups = 0
    /\ cycle = NoCycle

\* a connection is open, no call has been made, nothing is on the wire
Connected(i) ==
    /\ impl = i
    /\ reader = {1}
    /\ writer = {1}
    /\ conns = {1}
    /\ nconn = 1
    /\ call = "none"
    /\ last = NoLast
    /\ pc = [c \in Callers |-> "idle"]
    /\ lines = NoCall
    /\ linebytes = NoCall
    /\ framed = NoCall
    /\ ret = NoCall
    /\ exc = [c \in Callers |-> NoExc]
    /\ parsed = [c \in Callers |-> FALSE]
    /\ sent = <<>>
    /\ bmus = <<>>
    /\ parse = NoCall
    /\ arg = NoArg
    /\ res = <<>>
    /\ NoIntegration

\* PylontechBMS, one coroutine, an open connection, a complete response on
\* its way (the peer delivers it without a pause of 2 seconds)
Init ==
    \E k \in Commands :
      \E r \in Responses(k) :
        /\ Connected("BMS")
        /\ tasks = {1}
        /\ cmd = [c \in Callers |-> k]
        /\ answered = 1
        /\ wire = r.bytes
        /\ peer = "silent"
        /\ accepts = TRUE
        /\ segs = "any"
        /\ src = r.src
        /\ full = r.bytes

Next ==
    \E c \in Callers :
        \/ Write(c)
        \/ DrainDone(c)
        \/ IssueRead(c)
        \/ ReadDone(c)
        \/ Validate(c)
        \/ Parse(c)

Spec == Init /\ [][Next]_vars

(***************************************************************************)
(* A peer that may stop before the prompt: it sends a prefix of an answer  *)
(* and then closes the connection or stays silent, and it may not take     *)
(* the written command at all.  Both classes.                              *)
(***************************************************************************)
Answer(k, body, t) ==
    Encode(<<k, At>> \o body \o <<Dollars>>,
           [i \in 1..(Len(body) + 3) |-> t]) \o Prompt

Answers(k) ==
    UNION {{Answer(k, body, t) :
                body \in [1..n -> {DataLine}], t \in Terminators} :
           n \in 0..MaxBody}

Truncated(k) == UNION {{SubSeq(b, 1, n) : n \in 0..Len(b)} : b \in Answers(k)}

InitLive ==
    \E i \in Impls, k \in Commands, p \in {"closed", "silent"}, a \in BOOLEAN :
      \E w \in Truncated(k) :
        /\ a \/ w = <<>>
        /\ Connected(i)
        /\ tasks = {1}
        /\ cmd = [c \in Callers |-> k]
        /\ answered = 1
        /\ wire = w
        /\ peer = p
        /\ accepts = a
        /\ segs = "any"
        /\ src = <<>>
        /\ full = w

Step(c) ==
    \/ Write(c)
    \/ DrainDone(c)
    \/ DrainTimeout(c)
    \/ IssueRead(c)
    \/ ReadDone(c)
    \/ ReadEof(c)
    \/ ReadTimeout(c)
    \/ Validate(c)
    \/ Parse(c)

NextLive == \E c \in Callers : Step(c)

\* the event loop runs every coroutine that is ready and fires every timer
\* that is due
SpecLive ==
    InitLive /\ [][NextLive]_vars /\ \A c \in Callers : WF_vars(Step(c))

(***************************************************************************)
(* Two coroutines call command methods on one connected instance; the      *)
(* device answers every command it has received, in order.                 *)
(***************************************************************************)
Reply ==
    /\ answered < Len(sent)
    /\ LET w == sent[answered + 1]
           k == SubSeq(w, 1, Len(w) - 1)
       IN wire' = wire \o Answer(k, <<DataLine>>, <<CR>>)
    /\ answered' = answered + 1
    /\ UNCHANGED <<objects, pure, integration>>
    /\ UNCHANGED <<session, tasks, pc, cmd, locals, exc, sent, peer, accepts,
                   segs, src, full>>

InitConc ==
    \E i \in Impls, k1 \in Commands, k2 \in Commands :
        /\ Connected(i)
        /\ tasks = {1, 2}
        /\ cmd = [c \in Callers |-> IF c = 1 THEN k1 ELSE k2]
        /\ answered = 0
        /\ wire = <<>>
        /\ peer = "silent"
        /\ accepts = TRUE
        /\ segs = "whole"
        /\ src = <<>>
        /\ full = <<>>

NextConc ==
    \/ Reply
    \/ \E c \in Callers :
          \/ Write(c)
          \/ DrainDone(c)
          \/ IssueRead(c)
          \/ ReadDone(c)
          \/ ReadTimeout(c)
          \/ Validate(c)
          \/ Parse(c)

SpecConc == InitConc /\ [][NextConc]_vars

(***************************************************************************)
(* connect() and disconnect(), called one after the other on an instance.  *)
(***************************************************************************)
\* the calls a coordinator makes in _async_update_data and in detect_sensors
Steps(i) ==
    IF i = "BMS"
    THEN <<"connect", "pwr", "unit", "bat", "disconnect">>
    ELSE <<"connect", "pwr", "disconnect">>

\* no coordinator drives the instance, or it is at the line that makes the
\* call `what`
Calls(cy, what) ==
    IF cy.op = "none"
    THEN TRUE
    ELSE cy.op # "idle" /\ ~cy.awaiting /\ Steps(impl)[cy.at] = what

\* the coordinator is suspended in the call it has made
Awaiting(cy) == IF cy.op = "none" THEN cy ELSE [cy EXCEPT !.awaiting = TRUE]

\* a disconnect that keeps self.reader in both classes: C9 must tell it from
\* the code
ReaderKept(i) == FALSE

\* whether open_connection is wrapped in asyncio.wait_for(..., 5)
ConnectTimesOut(i) == i = "BMS"
\* the handle disconnect() tests against None
DisconnectGuard(i) == IF i = "BMS" THEN writer ELSE reader
\* whether disconnect() assigns self.reader = None
ReaderCleared(i) == i = "BMS"

Ended(op, e) ==
    last' = [op |-> op, exc |-> e, reader |-> reader, writer |-> writer,
             conns |-> conns \cup (IF op = "disconnect" THEN writer ELSE {})]

\* connect() is called: await open_connection(host, port); the peer answers
\* the attempt or it does not
Connect ==
    /\ call = "none"
    /\ nconn < MaxConns
    /\ Calls(cycle, "connect")
    /\ call' \in {"connecting", "unanswered"}
    /\ cycle' = Awaiting(cycle)
    /\ UNCHANGED <<objects, pure, registry, coordinator, entities, result, setups>>
    /\ UNCHANGED <<impl, reader, writer, conns, nconn, last, tasks, pc, cmd,
                   locals, exc, sent, wire, device>>

\* the peer accepts: self.reader, self.writer = the new connection's streams
ConnectDone ==
    /\ call = "connecting"
    /\ nconn' = nconn + 1
    /\ conns' = conns \cup {nconn + 1}
    /\ reader' = {nconn + 1}
    /\ writer' = {nconn + 1}
    /\ call' = "none"
    /\ Ended("connect", NoExc)
    /\ UNCHANGED <<objects, pure, integration>>
    /\ UNCHANGED <<impl, tasks, pc, cmd, locals, exc, sent, wire, device>>

\* the peer refuses: open_connection raises, nothing is assigned
ConnectRefused ==
    /\ call = "connecting"
    /\ call' = "none"
    /\ Ended("connect", "OSError")
    /\ UNCHANGED <<objects, pure, integration>>
    /\ UNCHANGED <<impl, reader, writer, conns, nconn, tasks, pc, cmd, locals,
                   exc, sent, wire, device>>

\* the peer does not answer: wait_for(open_connection(...), 5) gives up
ConnectTimeout ==
    /\ call = "unanswered"
    /\ ConnectTimesOut(impl)
    /\ call' = "none"
    /\ Ended("connect", "TimeoutError")
    /\ UNCHANGED <<objects, pure, integration>>
    /\ UNCHANGED <<impl, reader, writer, conns, nconn, tasks, pc, cmd, locals,
                   exc, sent, wire, device>>

\* disconnect() is called: the guard, self.writer.close(), up to
\* `await self.writer.wait_closed()`
Disconnect ==
    /\ call = "none"
    /\ Calls(cycle, "disconnect")
    /\ IF DisconnectGuard(impl) = None
       THEN /\ Ended("disconnect", NoExc)
            /\ UNCHANGED <<conns, call>>
       ELSE IF writer = None
            THEN /\ Ended("disconnect", "AttributeError")
                 /\ UNCHANGED <<conns, call>>
            ELSE /\ conns' = conns \ writer
                 /\ call' = "closing"
                 /\ last' = last
    /\ cycle' = Awaiting(cycle)
    /\ UNCHANGED <<objects, pure, registry, coordinator, entities, result, setups>>
    /\ UNCHANGED <<impl, reader, writer, nconn, tasks, pc, cmd, locals, exc,
                   sent, wire, device>>

\* wait_closed() returns; the handles are cleared
DisconnectDone ==
    /\ call = "closing"
    /\ reader' = IF ReaderCleared(impl) THEN None ELSE reader
    /\ writer' = None
    /\ call' = "none"
    /\ Ended("disconnect", NoExc)
    /\ UNCHANGED <<objects, pure, integration>>
    /\ UNCHANGED <<impl, conns, nconn, tasks, pc, cmd, locals, exc, sent, wire,
                   device>>

\* a new instance: __init__ sets no connection
InitConn ==
    \E i \in Impls :
        /\ impl = i
        /\ reader = None
        /\ writer = None
        /\ conns = {}
        /\ nconn = 0
        /\ call = "none"
        /\ last = NoLast
        /\ tasks = {}
        /\ pc = [c \in Callers |-> "idle"]
        /\ cmd = [c \in Callers |-> CmdPwr]
        /\ lines = NoCall
        /\ linebytes = NoCall
        /\ framed = NoCall
        /\ ret = NoCall
        /\ exc = [c \in Callers |-> NoExc]
        /\ parsed = [c \in Callers |-> FALSE]
        /\ sent = <<>>
        /\ bmus = <<>>
        /\ parse = NoCall
        /\ arg = NoArg
        /\ res = <<>>
        /\ NoIntegration
        /\ answered = 0
        /\ wire = <<>>
        /\ peer = "silent"
        /\ accepts = TRUE
        /\ segs = "any"
        /\ src = <<>>
        /\ full = <<>>

NextConn ==
    \/ Connect
    \/ ConnectDone
    \/ ConnectRefused
    \/ ConnectTimeout
    \/ Disconnect
    \/ DisconnectDone

SpecConn ==
    InitConn /\ [][NextConn]_vars
             /\ WF_vars(ConnectDone \/ ConnectRefused \/ ConnectTimeout)
             /\ WF_vars(DisconnectDone)


(***************************************************************************)
(* The decoders and parsers applied on their own to lines as the device    *)
(* prints them.                                                            *)
(***************************************************************************)
Word == <<78>>                              \* N
Pct == Dec(50) \o PercentStr                \* 50%
Sep == <<32, 58, 32>>                       \* " : "
Blank == <<32>>                             \* " "
Labelled(label, text) == label \o Sep \o text

\* one module row of `unit` whose first token is p
UnitRow(p) ==
    Join(<<Dec(p), Dec(1000), Dec(2000), Dec(3000), Dec(4000), Dec(5000),
           Dec(6000), Dec(7000), Word, Word, Word, Pct, Dec(1000), Word, Pct,
           Dec(2000)>>)

UnitInputs ==
    UNION {{[fn |-> "unit", raw |-> r,
             lines |-> <<Word, Word>> \o [i \in 1..n |-> UnitRow(r[i])]] :
                r \in [1..n -> 0..MaxUnits]} : n \in 0..MaxUnits}

\* one cell row of `bat` whose first token is i
BatRow(i) ==
    Join(<<Dec(i), Dec(3300), Dec(0), Dec(25000), Word, Word, Pct, Dec(1000),
           Pct, Dec(2000), Word>>)

BatHead ==
    <<Word, Labelled(Word, Dec(25000)), Labelled(Word, Dec(0)),
      Labelled(Word, Dec(0)), Labelled(Word, Word), Labelled(Word, Dec(4000)),
      Word>>

BatInputs ==
    {[fn |-> "bat", units |-> m, extra |-> x,
      lines |-> BatHead \o [i \in 1..(CellsPerUnit * m + x) |-> BatRow(i - 1)]] :
        m \in 0..MaxUnits, x \in 0..1}

\* the labelled line of the i-th field of InfoFields, with the value i
InfoLine(i) ==
    Labelled(InfoFields[i].lookup,
             Dec(i) \o (IF InfoFields[i].kind = "Current" THEN MilliAmp ELSE <<>>))

\* what the i-th field holds once it has taken its own line
InfoValue(i) ==
    IF InfoFields[i].kind = "Text" THEN StrVal(Blank \o Dec(i)) ELSE IntVal(i)

\* the i-th Module / PCBA line in stream order, and the serial it carries
Serial(i) == <<83>> \o Dec(i)
Pcba(i) == <<80>> \o Dec(i)
ModuleLine(i, sep) == ModuleStr \o Blank \o Dec(i) \o sep \o Serial(i)
PcbaLine(i, sep) == PcbaStr \o Blank \o Dec(i) \o sep \o Pcba(i)

\* the labelled lines that are not omitted, in the firmware's order
RECURSIVE Present(_, _)
Present(i, omitted) ==
    IF i > Len(InfoFields) THEN <<>>
    ELSE (IF i \in omitted THEN <<>> ELSE <<InfoLine(i)>>)
            \o Present(i + 1, omitted)

Fields == 1..Len(InfoFields)
Omissions == {o \in SUBSET Fields : Cardinality(o) <= MaxOmitted}

InfoBody(o, sep, m, q) ==
    Present(1, o) \o [i \in 1..m |-> ModuleLine(i, sep)]
                  \o [i \in 1..q |-> PcbaLine(i, sep)]

InfoInputs ==
    {[fn |-> "info", omitted |-> o, sep |-> Sep, modules |-> m, pcbas |-> 0,
      lines |-> InfoBody(o, Sep, m, 0)] : o \in Omissions, m \in 0..1}
    \cup
    {[fn |-> "info", omitted |-> o, sep |-> sep, modules |-> m, pcbas |-> q,
      lines |-> InfoBody(o, sep, m, q)] :
        o \in {{}, Fields}, sep \in {Sep, Blank}, m \in 0..MaxUnits, q \in 0..1}

\* a header line the fixed-position parser accepts at every line
ConsoleLine == Join(<<Word, Word, Word, Dec(1), Dec(1)>>)

ConsoleInfoInputs ==
    {[fn |-> "console_info", omitted |-> {}, sep |-> sep, modules |-> m,
      pcbas |-> q,
      lines |-> [i \in 1..20 |-> ConsoleLine]
                    \o [i \in 1..m |-> ModuleLine(i, sep)]
                    \o [i \in 1..q |-> PcbaLine(i, sep)]] :
        sep \in {Sep, Blank}, m \in 0..MaxUnits, q \in 0..1}

\* Device address, Barcode, PCBA Barcode, Max Charge Curr
FetchPicks == {1, 11, 12, 19}

\* a Barcode line whose value has a ":" in it
ColonLine == Labelled(InfoFields[11].lookup, Dec(1) \o ColonStr \o Dec(2))

FetchInputs ==
    {[fn |-> "fetch", kind |-> k, lookup |-> InfoFields[l].lookup, source |-> so] :
        k \in {"Text", "Integer", "Current"}, l \in FetchPicks,
        so \in UNION {[1..n -> {InfoLine(i) : i \in FetchPicks} \cup {ColonLine}] :
                         n \in 0..2}}

\* Current.set: the decimal text of an integer, with and without "mA", and
\* texts that are not of that form
IntText(n) == IF n < 0 THEN <<45>> \o Dec(0 - n) ELSE Dec(n)
CurrentInts == {0 - 5, 0, 7, 5000}
Dividers == {1, 10, 1000}
OtherTexts ==
    {<<>>, Word, MilliAmp, Word \o MilliAmp, Dec(1) \o MilliAmp \o Dec(2),
     MilliAmp \o Dec(7)}

SetInputs ==
    {[fn |-> "set", kind |-> "Current", text |-> IntText(n) \o x,
      divider |-> d, int |-> <<n>>] :
        n \in CurrentInts, x \in {<<>>, MilliAmp}, d \in Dividers}
    \cup {[fn |-> "set", kind |-> "Current", text |-> t, divider |-> d,
           int |-> <<>>] : t \in OtherTexts, d \in Dividers}

ApplySet ==
    /\ arg.fn = "set"
    /\ res = <<>>
    /\ res' = <<Set(arg.kind, arg.text, arg.divider)>>
    /\ UNCHANGED <<session, tasks, pc, cmd, locals, exc, sent, wire, device,
                   objects, arg,
                   integration>>

ApplyFetch ==
    /\ arg.fn = "fetch"
    /\ res = <<>>
    /\ res' = <<Fetch(arg.kind, arg.source, arg.lookup)>>
    /\ UNCHANGED <<session, tasks, pc, cmd, locals, exc, sent, wire, device,
                   objects, arg,
                   integration>>

ApplyUnitCommand ==
    /\ arg.fn = "unit"
    /\ res = <<>>
    /\ res' = <<UnitCommand(arg.lines)>>
    /\ UNCHANGED <<session, tasks, pc, cmd, locals, exc, sent, wire, device,
                   objects, arg,
                   integration>>

ApplyBatCommand ==
    /\ arg.fn = "bat"
    /\ res = <<>>
    /\ res' = <<BatCommand(arg.lines)>>
    /\ UNCHANGED <<session, tasks, pc, cmd, locals, exc, sent, wire, device,
                   objects, arg,
                   integration>>

ApplyInfoCommand ==
    /\ arg.fn = "info"
    /\ res = <<>>
    /\ res' = <<InfoCommand(arg.lines)>>
    /\ UNCHANGED <<session, tasks, pc, cmd, locals, exc, sent, wire, device,
                   objects, arg,
                   integration>>

ApplyConsoleInfoCommand ==
    /\ arg.fn = "console_info"
    /\ res = <<>>
    /\ res' = <<ConsoleInfoCommand(arg.lines)>>
    /\ UNCHANGED <<session, tasks, pc, cmd, locals, exc, sent, wire, device,
                   objects, arg,
                   integration>>

InitParse ==
    /\ arg \in UnitInputs \cup BatInputs \cup InfoInputs \cup ConsoleInfoInputs
                \cup FetchInputs \cup SetInputs
    /\ res = <<>>
    /\ NoIntegration
    /\ impl = "BMS"
    /\ reader = None
    /\ writer = None
    /\ conns = {}
    /\ nconn = 0
    /\ call = "none"
    /\ last = NoLast
    /\ tasks = {}
    /\ pc = [c \in Callers |-> "idle"]
    /\ cmd = [c \in Callers |-> CmdInfo]
    /\ lines = NoCall
    /\ linebytes = NoCall
    /\ framed = NoCall
    /\ ret = NoCall
    /\ exc = [c \in Callers |-> NoExc]
    /\ parsed = [c \in Callers |-> FALSE]
    /\ sent = <<>>
    /\ bmus = <<>>
    /\ parse = NoCall
    /\ answered = 0
    /\ wire = <<>>
    /\ peer = "silent"
    /\ accepts = TRUE
    /\ segs = "any"
    /\ src = <<>>
    /\ full = <<>>

NextParse ==
    \/ ApplySet
    \/ ApplyFetch
    \/ ApplyUnitCommand
    \/ ApplyBatCommand
    \/ ApplyInfoCommand
    \/ ApplyConsoleInfoCommand

SpecParse == InitParse /\ [][NextParse]_vars

(***************************************************************************)
(* Two command methods called one after the other on a connected           *)
(* PylontechBMS.  The response to the first is on its way, well formed or  *)
(* flawed in its frame or in its values; the device answers the second     *)
(* when it has received it.                                                *)
(***************************************************************************)
\* what the response may start with: nothing, no "@", no echo, or both
Heads(k) == {<<>>, <<k>>, <<DataLine, At>>, <<k, DataLine>>, <<k, At>>}

Flawed(k) ==
    UNION {{[src |-> h \o body \o <<Dollars>>,
             bytes |-> Encode(h \o body \o <<Dollars>>,
                              [i \in 1..(Len(h) + n + 1) |-> <<CR>>]) \o Prompt] :
               h \in Heads(k), body \in [1..n -> {DataLine, Prompt}]} :
           n \in 0..MaxBody}

\* the three header lines of `pwr`, the line above the values, the values
PwrHeaderValues == <<1, 2, 3>>
PwrHeaderLines(v) == [i \in 1..3 |-> Labelled(Word, Dec(v[i]))]

PwrTokens ==
    [i \in 1..11 |-> Dec(i % 10)] \o <<Word, Word, Word, Word>>
        \o <<Dec(5) \o PercentStr, Dec(6), Word, Dec(7) \o PercentStr, Dec(8)>>
        \o [i \in 1..8 |-> Word]

PwrBodies ==
    {PwrHeaderLines(PwrHeaderValues),
     PwrHeaderLines(PwrHeaderValues) \o <<Word, Join(PwrTokens)>>,
     PwrHeaderLines(PwrHeaderValues) \o <<Word, Join(SubSeq(PwrTokens, 1, 27))>>,
     PwrHeaderLines(PwrHeaderValues) \o <<Word, Join(Tail(PwrTokens))>>}

\* the answers of `info` that carry Module lines
InfoBodies ==
    {[i \in 1..n |-> ModuleLine(i, <<58, 32>>)] : n \in 1..MaxBody}

Complete(k, body) ==
    [src |-> <<k, At>> \o body \o <<EndOk>>,
     bytes |-> Encode(<<k, At>> \o body \o <<EndOk>>,
                      [i \in 1..(Len(body) + 3) |-> <<CR>>]) \o Prompt]

Measured(k) ==
    IF k = CmdPwr THEN {Complete(k, b) : b \in PwrBodies}
    ELSE IF k = CmdInfo THEN {Complete(k, b) : b \in InfoBodies}
    ELSE {}

SeqResponses(k) == Flawed(k) \cup WellFormed(k) \cup Measured(k)

\* the caller's next await: the second command method is called when the
\* first has returned or raised
NextCommand ==
    /\ tasks = {1}
    /\ pc[1] \in {"done", "raised", "failed"}
    /\ tasks' = {1, 2}
    /\ UNCHANGED <<objects, pure, integration>>
    /\ UNCHANGED <<session, pc, cmd, locals, exc, sent, wire, device>>

\* the device answers the next command it has received, in one segment
ReplyAtOnce ==
    /\ answered < Len(sent)
    /\ wire' = wire \o Answer(SubSeq(sent[answered + 1], 1,
                                     Len(sent[answered + 1]) - 1),
                              <<DataLine>>, <<CR>>)
    /\ answered' = answered + 1
    /\ segs' = "whole"
    /\ UNCHANGED <<objects, pure, integration>>
    /\ UNCHANGED <<session, tasks, pc, cmd, locals, exc, sent, peer, accepts,
                   src, full>>

InitSeq ==
    \E k1 \in Commands :
      \E r \in SeqResponses(k1) :
        /\ Connected("BMS")
        /\ tasks = {1}
        /\ cmd = [c \in Callers |-> IF c = 1 THEN k1 ELSE CmdUnit]
        /\ answered = 1
        /\ wire = r.bytes
        /\ peer = "silent"
        /\ accepts = TRUE
        /\ segs = "any"
        /\ src = r.src
        /\ full = r.bytes

NextSeq ==
    \/ NextCommand
    \/ ReplyAtOnce
    \/ \E c \in Callers :
          \/ Write(c)
          \/ DrainDone(c)
          \/ IssueRead(c)
          \/ ReadDone(c)
          \/ Validate(c)
          \/ Parse(c)

SpecSeq == InitSeq /\ [][NextSeq]_vars


(***************************************************************************)
(* The pylontech integration: a config entry is set up again and again.    *)
(* async_setup_entry reads the BMU devices of the device registry and      *)
(* builds the coordinator, detect_sensors and _async_update_data work on   *)
(* the parsed responses of a device with as many modules as `info` named,  *)
(* sensor.async_setup_entry registers the entities and, with them, their   *)
(* devices.                                                                *)
(***************************************************************************)
MaxSetups == 4       \* runs of async_setup_entry on one config entry
MaxModules == 2      \* battery modules the device of the config entry may have

BmsName == <<80, 121, 108, 111, 110, 116, 101, 99, 104, 32, 66, 77, 83>>
BmuName == <<80, 121, 108, 111, 110, 116, 101, 99, 104, 32, 66, 77, 85, 32, 35>>
BmuMark == <<66, 77, 85, 32, 35>>                              \* "BMU #"

\* sorted(...) of a set of strings
RECURSIVE StrLess(_, _)
StrLess(a, b) ==
    IF a = <<>> THEN b # <<>>
    ELSE IF b = <<>> THEN FALSE
    ELSE IF Head(a) = Head(b) THEN StrLess(Tail(a), Tail(b))
    ELSE Head(a) < Head(b)

Least(S) == CHOOSE x \in S : \A y \in S \ {x} : StrLess(x, y)

RECURSIVE Sorted(_)
Sorted(S) == IF S = {} THEN <<>> ELSE <<Least(S)>> \o Sorted(S \ {Least(S)})

\* the serial numbers of the registered devices whose name holds "BMU #"
BmuSerials(reg) ==
    Sorted({d.serial_number : d \in {x \in reg : Contains(x.name, BmuMark)}})

\* _device and _unit_device: the name and the serial number of a DeviceInfo
Device(barcode) == [name |-> BmsName, serial_number |-> barcode]
UnitDevice(idx, bmu) == [name |-> BmuName \o Dec(idx), serial_number |-> bmu]

\* known_positions = {b: i for i, b in enumerate(bmu_serials)}
Enumerated(bmu_serials) ==
    [b \in {bmu_serials[i] : i \in 1..Len(bmu_serials)} |->
        (CHOOSE i \in 1..Len(bmu_serials) : bmu_serials[i] = b) - 1]

\* for d in self.unit_device_infos: a serial that is not in bmu_serials
\* gets the next number
RECURSIVE KnownPositions(_, _, _, _)
KnownPositions(infos, i, known, serials) ==
    IF i > Len(infos)
    THEN known
    ELSE IF infos[i].serial_number \in DOMAIN Enumerated(serials.bmu_serials)
    THEN KnownPositions(infos, i + 1, known, serials)
    ELSE KnownPositions(infos, i + 1,
                        (infos[i].serial_number :> serials.next) @@ known,
                        [serials EXCEPT !.next = @ + 1])

\* self._unit_positions: entry i + 1 is the unit number of index i
UnitPositions(infos, bmu_serials) ==
    [i \in 1..Len(infos) |->
        KnownPositions(infos, 1, Enumerated(bmu_serials),
                       [bmu_serials |-> bmu_serials,
                        next |-> Len(bmu_serials)])[infos[i].serial_number]]

UnitDeviceInfos(bmu_modules) ==
    [i \in 1..Len(bmu_modules) |-> UnitDevice(i - 1, bmu_modules[i])]

\* PylontechUpdateCoordinator.__init__
Coordinator(bmu_modules, bmu_serials) ==
    [unit_device_infos |-> UnitDeviceInfos(bmu_modules),
     unit_positions |-> UnitPositions(UnitDeviceInfos(bmu_modules), bmu_serials),
     sensors |-> {}, unit_sensors |-> {}, bat_sensors |-> {}]

\* the modules `info` may name: the ones it named before and any others, in
\* any order
SerialPool == {Serial(i) : i \in 1..MaxModules}
Found(co) == {co.unit_device_infos[i].serial_number :
                 i \in 1..Len(co.unit_device_infos)}
Orders(S) ==
    {f \in [1..Cardinality(S) -> S] : \A i, j \in DOMAIN f : f[i] = f[j] => i = j}
ModuleOrders(co) ==
    UNION {Orders(S) : S \in {T \in SUBSET SerialPool : T # {} /\ Found(co) \subseteq T}}

\* the responses of a device with n modules, as _exec_cmd returns them
PwrLines == PwrHeaderLines(PwrHeaderValues) \o <<Word, Join(PwrTokens)>>
UnitLines(n) == <<Word, Word>> \o [i \in 1..n |-> UnitRow(i)]
BatLines(n) == BatHead \o [i \in 1..(CellsPerUnit * n) |-> BatRow(i - 1)]
Units(co) == Len(co.unit_device_infos)

\* get_sensors: the attributes that are Sensor objects (BatValues.unit is an
\* int, `values` a list)
GetSensors(rec) == DOMAIN rec \ {"unit", "values"}

\* the sensor ids: k, f"{k}_bmu_{bmu}" and f"{k}_cell_{bmu}_{cell}", kept as
\* the pieces the f-string joins
CoreIds(ks) == {<<k>> : k \in ks}
UnitIds(ks, bmu) == {<<k, "_bmu_", Dec(bmu)>> : k \in ks}
CellIds(ks, bmu, cell) == {<<k, "_cell_", Dec(bmu), "_", Dec(cell)>> : k \in ks}

\* a cell number that counts through all the rows: C29 must tell it from
\* the code
CellOfRowTotal(i) == i

\* _async_update_data: cell = i % 15
CellOfRow(i) == i % CellsPerUnit

\* sensor setup: bmu_idx = int(idx / 15), cell = idx % 15
BmuIdx(idx) == idx \div CellsPerUnit
CellOfIdx(idx) == idx % CellsPerUnit

\* async_setup_entry of __init__.py: the BMU serials of the registry, the
\* coordinator (info has answered: connect, info, disconnect went through)
SetupEntry ==
    /\ setups < MaxSetups
    /\ setups = 0 \/ entities # {}
    /\ \E bmu_modules \in ModuleOrders(coordinator) :
          coordinator' = Coordinator(bmu_modules, BmuSerials(registry))
    /\ setups' = setups + 1
    /\ entities' = {}
    /\ result' = <<>>
    /\ UNCHANGED <<registry, cycle>>
    /\ UNCHANGED <<session, tasks, pc, cmd, locals, exc, sent, wire, device,
                   objects, pure>>

\* detect_sensors: self.sensors, self.unit_sensors, self.bat_sensors from
\* pwr, unit.values[0] and bat.values[0]
DetectSensors ==
    /\ setups > 0
    /\ coordinator.unit_sensors = {}
    /\ coordinator' =
          [coordinator EXCEPT
              !.sensors = GetSensors(PwrCommand(PwrLines).value),
              !.unit_sensors =
                  GetSensors(UnitCommand(UnitLines(Units(coordinator)))
                                 .value["values"][1]),
              !.bat_sensors =
                  GetSensors(BatCommand(BatLines(Units(coordinator)))
                                 .value["values"][1])]
    /\ UNCHANGED <<registry, entities, result, setups, cycle>>
    /\ UNCHANGED <<session, tasks, pc, cmd, locals, exc, sent, wire, device,
                   objects, pure>>

\* result.update({...}): the keys written and how many writes there were
NoResult == [exc |-> NoExc, keys |-> {}, writes |-> 0]
Updated(acc, ks) ==
    [acc EXCEPT !.keys = @ \cup ks, !.writes = @ + Cardinality(ks)]
Failed(acc, e) == [acc EXCEPT !.exc = e]

\* for i, unt in enumerate(unit.values): bmu = self.get_unit_number(i)
RECURSIVE UnitUpdates(_, _, _, _)
UnitUpdates(co, rows, i, acc) ==
    IF acc.exc # NoExc \/ i >= Len(rows)
    THEN acc
    ELSE IF (i + 1) \notin DOMAIN co.unit_positions
    THEN Failed(acc, "KeyError")
    ELSE UnitUpdates(co, rows, i + 1,
                     Updated(acc, UnitIds(GetSensors(rows[i + 1]),
                                          co.unit_positions[i + 1])))

\* for i, bt in enumerate(bat.values): bmu = self.get_unit_number(bt.unit)
RECURSIVE BatUpdates(_, _, _, _)
BatUpdates(co, rows, i, acc) ==
    IF acc.exc # NoExc \/ i >= Len(rows)
    THEN acc
    ELSE IF (rows[i + 1]["unit"][2] + 1) \notin DOMAIN co.unit_positions
    THEN Failed(acc, "KeyError")
    ELSE BatUpdates(co, rows, i + 1,
                    Updated(acc,
                            CellIds(GetSensors(rows[i + 1]),
                                    co.unit_positions[rows[i + 1]["unit"][2] + 1],
                                    CellOfRow(i))))

\* the body of _async_update_data on the three parsed responses
Started(pwr) ==
    IF pwr.exc # NoExc
    THEN Failed(NoResult, pwr.exc)
    ELSE Updated(NoResult, CoreIds(GetSensors(pwr.value)))
WithUnits(co, unit, acc) ==
    IF acc.exc # NoExc THEN acc
    ELSE IF unit.exc # NoExc THEN Failed(acc, unit.exc)
    ELSE UnitUpdates(co, unit.value["values"], 0, acc)
WithCells(co, bat, acc) ==
    IF acc.exc # NoExc THEN acc
    ELSE IF bat.exc # NoExc THEN Failed(acc, bat.exc)
    ELSE BatUpdates(co, bat.value["values"], 0, acc)
UpdateData(co, pwr, unit, bat) ==
    WithCells(co, bat, WithUnits(co, unit, Started(pwr)))

\* _async_update_data: the result built from the responses of the device
Refresh ==
    /\ coordinator.unit_sensors # {}
    /\ result' = <<UpdateData(coordinator, PwrCommand(PwrLines),
                              UnitCommand(UnitLines(Units(coordinator))),
                              BatCommand(BatLines(Units(coordinator))))>>
    /\ UNCHANGED <<registry, coordinator, entities, setups, cycle>>
    /\ UNCHANGED <<session, tasks, pc, cmd, locals, exc, sent, wire, device,
                   objects, pure>>

\* for i in range(coordinator.get_number_of_units())
UnitEntities(co) ==
    UNION {UnitIds(co.unit_sensors, co.unit_positions[i + 1]) :
              i \in 0..(Len(co.unit_positions) - 1)}

\* for idx in reversed(range(coordinator.get_number_of_units() * 15))
CellEntities(co) ==
    UNION {CellIds(co.bat_sensors, co.unit_positions[BmuIdx(idx) + 1],
                   CellOfIdx(idx)) :
              idx \in 0..(Len(co.unit_positions) * CellsPerUnit - 1)}

\* the devices of the entities: the registry keeps one device per identifier
Devices(co) ==
    {Device(Serial(0))} \cup
    {co.unit_device_infos[i] : i \in 1..Len(co.unit_device_infos)}
Registered(reg, devs) ==
    {d \in reg : \A n \in devs : n.serial_number # d.serial_number} \cup devs

\* async_setup_entry of sensor.py, after the first refresh: the entities are
\* added, their devices are registered
SensorSetup ==
    /\ result # <<>>
    /\ entities = {}
    /\ entities' = CoreIds(coordinator.sensors) \cup UnitEntities(coordinator)
                       \cup CellEntities(coordinator)
    /\ registry' = Registered(registry, Devices(coordinator))
    /\ UNCHANGED <<coordinator, result, setups, cycle>>
    /\ UNCHANGED <<session, tasks, pc, cmd, locals, exc, sent, wire, device,
                   objects, pure>>

InitSetup ==
    /\ impl = "BMS"
    /\ reader = None
    /\ writer = None
    /\ conns = {}
    /\ nconn = 0
    /\ call = "none"
    /\ last = NoLast
    /\ tasks = {}
    /\ pc = [c \in Callers |-> "idle"]
    /\ cmd = [c \in Callers |-> CmdInfo]
    /\ lines = NoCall
    /\ linebytes = NoCall
    /\ framed = NoCall
    /\ ret = NoCall
    /\ exc = [c \in Callers |-> NoExc]
    /\ parsed = [c \in Callers |-> FALSE]
    /\ sent = <<>>
    /\ bmus = <<>>
    /\ parse = NoCall
    /\ arg = NoArg
    /\ res = <<>>
    /\ answered = 0
    /\ wire = <<>>
    /\ peer = "silent"
    /\ accepts = TRUE
    /\ segs = "any"
    /\ src = <<>>
    /\ full = <<>>
    /\ NoIntegration

NextSetup ==
    \/ SetupEntry
    \/ DetectSensors
    \/ Refresh
    \/ SensorSetup

SpecSetup == InitSetup /\ [][NextSetup]_vars


(***************************************************************************)
(* The update cycles of the two coordinators: _async_update_data and       *)
(* detect_sensors open a connection, call the command methods and close    *)
(* it.  The framework runs one cycle at a time.                            *)
(***************************************************************************)
\* whether disconnect() is in a `finally` clause
InFinally(i) == i = "BMS"

CommandOf(step) ==
    IF step = "pwr" THEN CmdPwr ELSE IF step = "unit" THEN CmdUnit ELSE CmdBat
\* the header lines of `pwr` as PylontechConsole reads them: the value is
\* the third or the fourth token
ConsolePwrLines ==
    [i \in 1..3 |-> Join(<<Word, Word, Dec(1), Dec(1)>>)]
        \o <<Word, Join(PwrTokens)>>
GoodBody(k) ==
    IF k = CmdPwr THEN (IF impl = "BMS" THEN PwrLines ELSE ConsolePwrLines)
    ELSE IF k = CmdUnit THEN UnitLines(1)
    ELSE BatLines(1)

\* what the device does with a command: a full answer, an answer with one
\* data line, an answer without echo, or nothing
CycleResponses(k) ==
    {Complete(k, GoodBody(k)), Complete(k, <<DataLine>>),
     [src |-> <<DataLine>>, bytes |-> DataLine \o <<CR>> \o Prompt],
     [src |-> <<>>, bytes |-> <<>>]}

Idle == [op |-> "idle", at |-> 0, awaiting |-> FALSE, exc |-> NoExc]

\* the framework calls _async_update_data, the setup calls detect_sensors
Begin ==
    /\ cycle.op = "idle"
    /\ nconn < MaxConns
    /\ \E op \in {"update", "detect"} :
          cycle' = [op |-> op, at |-> 1, awaiting |-> FALSE, exc |-> NoExc]
    /\ UNCHANGED <<registry, coordinator, entities, result, setups>>
    /\ UNCHANGED <<session, tasks, pc, cmd, locals, exc, sent, wire, device,
                   objects, pure>>

\* await self.pylontech.pwr() / unit() / bat(): the command method starts,
\* the device will answer in one of its ways
Command ==
    /\ cycle.op \notin {"none", "idle"}
    /\ ~cycle.awaiting
    /\ Steps(impl)[cycle.at] \in {"pwr", "unit", "bat"}
    /\ tasks' = {1}
    /\ cmd' = [cmd EXCEPT ![1] = CommandOf(Steps(impl)[cycle.at])]
    /\ pc' = [pc EXCEPT ![1] = "idle"]
    /\ exc' = [exc EXCEPT ![1] = NoExc]
    /\ lines' = NoCall
    /\ linebytes' = NoCall
    /\ framed' = NoCall
    /\ ret' = NoCall
    /\ parsed' = [c \in Callers |-> FALSE]
    /\ parse' = NoCall
    /\ \E r \in CycleResponses(cmd'[1]) :
          /\ wire' = r.bytes
          /\ src' = r.src
          /\ full' = r.bytes
    /\ answered' = Len(sent) + 1
    /\ segs' = "whole"
    /\ cycle' = Awaiting(cycle)
    /\ UNCHANGED <<registry, coordinator, entities, result, setups>>
    /\ UNCHANGED <<session, sent, peer, accepts, bmus, pure>>

\* the call the coordinator awaits is over
CallEnded(step) ==
    IF step \in {"connect", "disconnect"}
    THEN call = "none"
    ELSE pc[1] \in {"done", "raised", "failed"}

\* what it raised; detect_sensors also reads unit.values[0], bat.values[0]
Raised(step, op) ==
    IF step \in {"connect", "disconnect"} THEN last.exc
    ELSE IF pc[1] = "failed" THEN exc[1]
    ELSE IF pc[1] = "raised" THEN parse[1][1].exc
    ELSE IF op = "detect" /\ impl = "BMS" /\ step \in {"unit", "bat"}
            /\ parse[1][1].value["values"] = <<>>
    THEN "IndexError"
    ELSE NoExc

\* where the coordinator goes on: the next call, the disconnect of the
\* finally clause with the exception pending, or out of the method
Resumed(cy, e) ==
    IF e = NoExc /\ cy.at < Len(Steps(impl))
    THEN [cy EXCEPT !.at = @ + 1, !.awaiting = FALSE]
    ELSE IF e # NoExc /\ InFinally(impl) /\ cy.at < Len(Steps(impl))
    THEN [cy EXCEPT !.at = Len(Steps(impl)), !.awaiting = FALSE, !.exc = e]
    ELSE [Idle EXCEPT !.exc = IF e # NoExc THEN e ELSE cy.exc]

Resume ==
    /\ cycle.awaiting
    /\ CallEnded(Steps(impl)[cycle.at])
    /\ cycle' = Resumed(cycle, Raised(Steps(impl)[cycle.at], cycle.op))
    /\ UNCHANGED <<registry, coordinator, entities, result, setups>>
    /\ UNCHANGED <<session, tasks, pc, cmd, locals, exc, sent, wire, device,
                   objects, pure>>

\* a new session manager and its coordinator, no cycle under way
InitCycle ==
    \E i \in Impls :
        /\ impl = i
        /\ reader = None
        /\ writer = None
        /\ conns = {}
        /\ nconn = 0
        /\ call = "none"
        /\ last = NoLast
        /\ tasks = {}
        /\ pc = [c \in Callers |-> "idle"]
        /\ cmd = [c \in Callers |-> CmdPwr]
        /\ lines = NoCall
        /\ linebytes = NoCall
        /\ framed = NoCall
        /\ ret = NoCall
        /\ exc = [c \in Callers |-> NoExc]
        /\ parsed = [c \in Callers |-> FALSE]
        /\ sent = <<>>
        /\ bmus = <<>>
        /\ parse = NoCall
        /\ arg = NoArg
        /\ res = <<>>
        /\ answered = 0
        /\ wire = <<>>
        /\ peer = "silent"
        /\ accepts = TRUE
        /\ segs = "whole"
        /\ src = <<>>
        /\ full = <<>>
        /\ registry = {}
        /\ coordinator = NoCoordinator
        /\ entities = {}
        /\ result = <<>>
        /\ setups = 0
        /\ cycle = Idle

NextCycle ==
    \/ Begin
    \/ Connect
    \/ ConnectDone
    \/ ConnectRefused
    \/ ConnectTimeout
    \/ Command
    \/ \E c \in Callers :
          \/ Write(c)
          \/ DrainDone(c)
          \/ IssueRead(c)
          \/ ReadDone(c)
          \/ ReadTimeout(c)
          \/ Validate(c)
          \/ Parse(c)
    \/ Resume
    \/ Disconnect
    \/ DisconnectDone

SpecCycle == InitCycle /\ [][NextCycle]_vars


(***************************************************************************)
(* Claims on the response frame reader and the framing validation.         *)
(***************************************************************************)
Framed(c) == framed[c] # <<>>
FrameOf(c) == framed[c][1]
Finished(c) == pc[c] \in {"returned", "done", "raised", "failed"}
Outcome(c) == [exc |-> exc[c], ret |-> ret[c]]
NotEndPrompt(l) == l \notin END_PROMPTS

\* C1: for a response built from literal lines, each followed by LF, CR or
\* CRLF, and then the prompt, the list _exec_cmd has accumulated when its
\* loop ends is the original lines in order without the end-of-response lines.
C1_FrameIsOriginalLines ==
    \A c \in tasks : Framed(c) => FrameOf(c) = SelectSeq(src, NotEndPrompt)

\* The outcome of _exec_cmd(k) on response w when every read returns all the
\* bytes there are, up to 120.
RECURSIVE WholeReads(_, _, _, _)
WholeReads(ls, lb, w, k) ==
    IF lb = Prompt THEN Validated(ls, k)
    ELSE IF w = <<>> THEN [exc |-> "pending", ret |-> <<>>]
    ELSE LET n == Min(ReadMax, Len(w))
             st == Feed(ls, lb, SubSeq(w, 1, n))
         IN  IF st.exc # NoExc
             THEN [exc |-> st.exc, ret |-> <<>>]
             ELSE WholeReads(st.lines, st.linebytes, SubSeq(w, n + 1, Len(w)), k)

\* C2: for a fixed response that ends with the prompt, the outcome of
\* _exec_cmd (the returned list, or the failure) is the same however the
\* stream is split into reads of 1 to 120 bytes.
C2_OutcomeIndependentOfSplit ==
    \A c \in tasks :
        Finished(c) => Outcome(c) = WholeReads(<<>>, <<>>, full, cmd[c])

EchoMismatch(ls, k) == Len(ls) >= 1 /\ ls[1] # k
AtMismatch(ls, k) == Len(ls) >= 2 /\ ls[1] = k /\ ls[2] # At
LineMissing(ls, k) == ls = <<>> \/ (Len(ls) = 1 /\ ls[1] = k)

\* C3: for every command, when the first line of the framed response is not
\* the echoed command or the second line is not "@", the call fails in
\* _exec_cmd (ValueError for a line that differs, IndexError for a line that
\* is not there), nothing is returned and no command parser is run.
C3_BadFrameFailsBeforeParsing ==
    \A c \in tasks :
        LET ls == FrameOf(c)
            k == cmd[c]
        IN  /\ (Framed(c) /\ (EchoMismatch(ls, k) \/ AtMismatch(ls, k)))
                => (pc[c] = "failed" /\ exc[c] = "ValueError"
                    /\ ret[c] = <<>> /\ ~parsed[c])
            /\ (Framed(c) /\ LineMissing(ls, k))
                => (pc[c] = "failed" /\ exc[c] = "IndexError"
                    /\ ret[c] = <<>> /\ ~parsed[c])
            /\ parsed[c] => (Framed(c) /\ Len(ls) >= 2 /\ ls[1] = k /\ ls[2] = At)

\* a call has failed on an "@" line that differs, after the echo matched
C3_Witness ==
    \E c \in tasks :
        /\ Framed(c) /\ AtMismatch(FrameOf(c), cmd[c])
        /\ pc[c] = "failed"
        /\ cmd[c] = CmdUnit

\* C5: on a complete response that ends with the prompt, _exec_cmd leaves its
\* loop only when the whole response has been received, and issues no read
\* after the read that delivered the last byte of the prompt.
C5_StopsExactlyAtPrompt ==
    \A c \in tasks :
        /\ Framed(c) => wire = <<>>
        /\ ~(pc[c] = "read" /\ wire = <<>>)

\* a round trip is in progress: the command is written, its response is not
\* yet framed
InFlight(c) == pc[c] \in {"drain", "loop", "read"}

\* C4: on one instance at most one command round trip is in progress at any
\* time; a second caller's command is not written, and no read is issued for
\* it, before the first caller's response is fully framed.
C4_OneRoundTripAtATime ==
    Cardinality({c \in tasks : InFlight(c)}) <= 1

\* the peer has closed the connection and the prompt has not been received
AtEof(c) == pc[c] = "read" /\ wire = <<>> /\ peer = "closed"

\* C6: when the peer closes the connection before the prompt has been
\* received, _exec_cmd ends with a failure; it does not read forever.
C6_EofEndsInFailure ==
    \A c \in Callers : AtEof(c) ~> (pc[c] = "failed")

\* the peer keeps the connection open and the call cannot go on: no byte
\* comes before the prompt, or the written command is never taken
Stalled(c) ==
    \/ pc[c] = "read" /\ wire = <<>> /\ peer = "silent"
    \/ pc[c] = "drain" /\ ~accepts

TimedOut(c) == pc[c] = "failed" /\ exc[c] = "TimeoutError"

\* C7: in PylontechBMS a call stalled by a silent peer does not stay pending:
\* the drain or the read times out and the call fails with TimeoutError.
C7_SilentPeerTimesOutBMS ==
    \A c \in Callers : (impl = "BMS" /\ Stalled(c)) ~> TimedOut(c)

C7_Witness ==
    \E c \in tasks :
        /\ impl = "BMS"
        /\ TimedOut(c)
        /\ peer = "silent"
        /\ wire = <<>>
        /\ lines[c] # <<>>

\* C8: in PylontechConsole a call stalled by a silent peer does not stay
\* pending: a read or write step times out and the call fails.
C8_SilentPeerTimesOutConsole ==
    \A c \in Callers : (impl = "Console" /\ Stalled(c)) ~> (pc[c] = "failed")

DisconnectEnded == call = "none" /\ last.op = "disconnect"

\* C9: PylontechBMS.disconnect() raises nothing and leaves both handles
\* cleared; with no connection open it changes nothing, and with one open it
\* closes exactly that connection.
C9_DisconnectIdempotentBMS ==
    (impl = "BMS" /\ DisconnectEnded) =>
        /\ last.exc = NoExc
        /\ reader = None
        /\ writer = None
        /\ last.writer = None => (last.reader = None /\ conns = last.conns)
        /\ last.writer # None => conns = last.conns \ last.writer

C9_Witness ==
    /\ impl = "BMS"
    /\ DisconnectEnded
    /\ nconn >= 1
    /\ last.writer = None
    /\ last.exc = NoExc

\* C10: PylontechConsole.disconnect() raises nothing, whether or not a
\* connection is open; a second disconnect() after connect() and
\* disconnect() is a no-op.
C10_DisconnectIdempotentConsole ==
    (impl = "Console" /\ DisconnectEnded) =>
        /\ last.exc = NoExc
        /\ last.writer = None => conns = last.conns

(***************************************************************************)
(* Claims on the command parsers.                                          *)
(***************************************************************************)
Applied(fn) == arg.fn = fn /\ res # <<>>
Result == res[1]

\* C12: for a unit response with N module rows after the 2 header lines, the
\* row whose raw position token is p gets final position N - 1 - p.
C12_UnitPositionReversed ==
    Applied("unit") =>
        LET n == Len(arg.raw) IN
        /\ Result.exc = NoExc
        /\ Len(Result.value.values) = n
        /\ \A j \in 1..n :
              Result.value.values[n + 1 - j]["position"]
                  = IntVal(n - 1 - arg.raw[j])

\* an info response whose labelled lines are all there or all left out, with
\* at least one Module line
ModulesOnly ==
    /\ arg.fn \in {"info", "console_info"}
    /\ res # <<>>
    /\ arg.modules >= 1
    /\ arg.omitted \in {{}, Fields}

\* C13: bmu_modules and bmu_pcbas hold the serials of the Module and PCBA
\* lines in the reverse of their stream order; the lines `Module 1 : S1`,
\* `Module 2 : S2`, `Module 3 : S3` give [S3, S2, S1].
C13_ModulesReversed ==
    ModulesOnly =>
        /\ Result.exc = NoExc
        /\ Result.value["bmu_modules"]
              = [j \in 1..arg.modules |-> Serial(arg.modules + 1 - j)]
        /\ Result.value["bmu_pcbas"]
              = [j \in 1..arg.pcbas |-> Pcba(arg.pcbas + 1 - j)]

\* C14: for a bat response with 15 * M cell rows from line index 7 on, the
\* i-th row in stream order (from 0) gets module index M - 1 - floor(i / 15).
C14_CellModuleIndex ==
    (Applied("bat") /\ arg.extra = 0) =>
        /\ Result.exc = NoExc
        /\ Len(Result.value["values"]) = CellsPerUnit * arg.units
        /\ \A i \in 0..(CellsPerUnit * arg.units - 1) :
              Result.value["values"][i + 1]["unit"]
                  = IntVal(arg.units - 1 - (i \div CellsPerUnit))

C14_Witness ==
    /\ Applied("bat")
    /\ arg.extra = 0
    /\ arg.units >= 2
    /\ Result.exc = NoExc
    /\ Result.value["values"][1]["unit"] = IntVal(arg.units - 1)
    /\ Result.value["values"][CellsPerUnit + 1]["unit"] = IntVal(arg.units - 2)

\* the head line of the pending list does not contain the expected label
LabelAbsent ==
    /\ Applied("fetch")
    /\ arg.source # <<>>
    /\ \A i \in 1..(Len(arg.source[1]) - Len(arg.lookup) + 1) :
          SubSeq(arg.source[1], i, i + Len(arg.lookup) - 1) # arg.lookup

\* C15: fetch on a pending list whose head line does not contain the label
\* leaves the value null and the pending list as it was, for Text, Integer
\* and Current fields.
C15_FetchSkipsAbsentLabel ==
    LabelAbsent =>
        /\ Result.exc = NoExc
        /\ Result.value = Null
        /\ Result.source = arg.source

C15_Witness ==
    /\ LabelAbsent
    /\ arg.kind = "Current"
    /\ Len(arg.source) = 2
    /\ Result.source = arg.source

\* C16: an info response with any subset of the labelled lines left out
\* parses without error; every field whose line is there holds the value of
\* its own line and every other field stays null.
C16_InfoToleratesOmissions ==
    Applied("info") =>
        /\ Result.exc = NoExc
        /\ \A i \in Fields :
              Result.value[InfoFields[i].field]
                  = IF i \in arg.omitted THEN Null ELSE InfoValue(i)


(***************************************************************************)
(* Claims on a command method as a whole: the round trip, the parser, and  *)
(* what the caller and the instance are left with.                         *)
(***************************************************************************)
Returned(c) == pc[c] = "done"
FramingFailed(c) == pc[c] = "failed" /\ Framed(c)
DecodingFailed(c) == pc[c] = "raised"
Over(c) == pc[c] \in {"done", "raised", "failed"}

\* C11: when a command has failed at framing validation or in field decoding,
\* nothing of its response is left in the stream, and the next command on the
\* connection, given a well-formed response, returns the lines of that
\* response and nothing else.
C11_FailureLeavesConnectionUsable ==
    (FramingFailed(1) \/ DecodingFailed(1)) =>
        /\ answered = 1 => wire = <<>>
        /\ Over(2) => exc[2] = NoExc /\ ret[2] = <<DataLine>>

PwrOf(body) == cmd[1] = CmdPwr /\ src = <<CmdPwr, At>> \o body \o <<EndOk>>
Record(c) == parse[c][1].value

\* the header fields are the integers of the header lines over 1000
PwrHeaderFields ==
    /\ Record(1)["avg_temp"] = FloatVal(PwrHeaderValues[1], 1000)
    /\ Record(1)["dc_voltage"] = FloatVal(PwrHeaderValues[2], 1000)
    /\ Record(1)["bat_voltage"] = FloatVal(PwrHeaderValues[3], 1000)

Lists == {"values", "bmu_modules", "bmu_pcbas"}
Populated(rec) == \A f \in DOMAIN rec \ Lists : rec[f] # Null
Rows(rec) == IF "values" \in DOMAIN rec THEN rec["values"] ELSE <<>>

\* C18: a record returned by info(), pwr(), unit() or bat() has every
\* measurement field populated; a call that cannot populate a field raises.
C18_NoPartialRecord ==
    \A c \in Callers :
        Returned(c) =>
            /\ Populated(Record(c))
            /\ \A i \in 1..Len(Rows(Record(c))) : Populated(Rows(Record(c))[i])

\* the kinds of error the framing validation raises, on frames with and
\* without the echo and the "@"
FramingKinds ==
    {Validated(ls, CmdPwr).exc :
        ls \in {<<>>, <<CmdPwr>>, <<DataLine, At>>, <<CmdPwr, DataLine>>}}

\* C19: a failure in field decoding reaches the caller under an error kind
\* that differs from every kind a framing failure is raised under.
C19_ErrorKindsDistinguishable ==
    \A c \in Callers : DecodingFailed(c) => parse[c][1].exc \notin FramingKinds

\* C20: when a command method has returned or raised, the attributes of the
\* instance other than reader and writer are as they were before the call
\* (bmus is the empty tuple until the first call).
C20_CommandKeepsAttributes ==
    (tasks = {1} /\ Over(1)) => bmus = <<>>

(***************************************************************************)
(* Claims on the decoders, the fetch mechanism and the unit rows.          *)
(***************************************************************************)
\* C21: Current decoding of the decimal text of an integer n, with or without
\* a trailing "mA", gives n / d; decoding any other text raises an error and
\* sets no value.
C21_CurrentDecoding ==
    Applied("set") =>
        IF arg.int # <<>>
        THEN Result = Ok(FloatVal(arg.int[1], arg.divider))
        ELSE Result.exc # NoExc /\ Result.value = Null

LabelPresent ==
    /\ Applied("fetch")
    /\ arg.source # <<>>
    /\ \E i \in 1..(Len(arg.source[1]) - Len(arg.lookup) + 1) :
          SubSeq(arg.source[1], i, i + Len(arg.lookup) - 1) = arg.lookup

\* the whole text after the first ":" of a line
AfterColon(line) == SubSeq(line, IndexOf(line, ColonStr) + 1, Len(line))

\* C22: fetch on a pending list whose head line contains the label sets the
\* field from the whole text after the first ":" of that line and removes
\* that one line from the list, for Text and for Integer fields.
C22_FetchTakesTextAfterFirstColon ==
    /\ (LabelPresent /\ arg.kind = "Text") =>
          /\ Result.exc = NoExc
          /\ Result.value = StrVal(AfterColon(arg.source[1]))
          /\ Result.source = Tail(arg.source)
    /\ (LabelPresent /\ arg.kind = "Integer"
            /\ ParseInt(AfterColon(arg.source[1])).ok) =>
          /\ Result.exc = NoExc
          /\ Result.value = IntVal(ParseInt(AfterColon(arg.source[1])).n)
          /\ Result.source = Tail(arg.source)

\* two decoded numbers are the same number
Denominator(v) == IF v[1] = "float" THEN v[3] ELSE 1
SameNumber(a, b) ==
    /\ a # Null
    /\ b # Null
    /\ a[2] * Denominator(b) = b[2] * Denominator(a)

\* C23: a Current field decoded through fetch holds what Current.set gives
\* for the same raw text; max_discharge_current and max_charge_current of
\* info are the milliamperes of their lines over 1000.
C23_FetchedCurrentIsScaled ==
    /\ (LabelPresent /\ arg.kind = "Current"
            /\ Set("Current", AfterColon(arg.source[1]), 1000).exc = NoExc) =>
          SameNumber(Result.value,
                     Set("Current", AfterColon(arg.source[1]), 1000).value)
    /\ (Applied("info") /\ Result.exc = NoExc) =>
          \A i \in {18, 19} \ arg.omitted :
              SameNumber(Result.value[InfoFields[i].field], FloatVal(i, 1000))

\* C24: UnitCommand skips the first 2 lines and makes one snapshot of every
\* later line; the list holds them in the reverse of stream order, the row
\* read last at index 0, and is as long as there are rows.
C24_UnitRowsReversed ==
    Applied("unit") =>
        /\ Result.exc = NoExc
        /\ Len(Result.value.values) = Len(arg.lines) - 2
        /\ \A j \in 1..(Len(arg.lines) - 2) :
              Result.value.values[j]
                  = UnitValues(arg.lines[Len(arg.lines) + 1 - j],
                               Len(arg.lines) - 1).value

C24_Witness ==
    /\ Applied("unit")
    /\ Len(arg.raw) = 3
    /\ arg.raw[1] # arg.raw[3]
    /\ Result.value.values[1] # Result.value.values[3]

(***************************************************************************)
(* Claims on the lines _exec_cmd returns and on the order of its steps.    *)
(***************************************************************************)
HasReturned(c) == pc[c] \in {"returned", "done", "raised"}

\* C25: no line of a list returned by _exec_cmd is empty, holds a CR or LF,
\* is an end-of-response line or is the prompt, and the echo and the "@" are
\* not in the list.
C25_ReturnedLinesAreData ==
    \A c \in Callers :
        HasReturned(c) =>
            /\ \A i \in 1..Len(ret[c]) :
                  /\ ret[c][i] # <<>>
                  /\ \A j \in 1..Len(ret[c][i]) : ret[c][i][j] \notin {CR, LF}
                  /\ ret[c][i] \notin END_PROMPTS
                  /\ ret[c][i] # Prompt
            /\ ret[c] = SubSeq(FrameOf(c), 3, Len(FrameOf(c)))

\* what one step of coroutine c may do to the round trip it is in
Wrote(c) == pc[c] = "idle" /\ pc'[c] = "drain"
Ordered(c) ==
    /\ Wrote(c) => sent' = Append(sent, cmd[c] \o <<CR>>)
    /\ pc'[c] = "loop" => \/ pc[c] \in {"loop", "read"}
                          \/ pc[c] = "drain" /\ accepts
    /\ pc'[c] = "read" => pc[c] \in {"loop", "read"}
    /\ framed'[c] # framed[c] => pc[c] = "loop" /\ linebytes[c] = Prompt
    /\ parsed'[c] # parsed[c] =>
          /\ pc[c] = "returned" /\ exc[c] = NoExc
          /\ Len(FrameOf(c)) >= 2
          /\ FrameOf(c)[1] = cmd[c] /\ FrameOf(c)[2] = At

NumberOf(co, s) ==
    co.unit_positions[CHOOSE i \in 1..Len(co.unit_device_infos) :
                          co.unit_device_infos[i].serial_number = s]

\* C27: over the setups of a config entry, starting from an empty device
\* registry and each setup registering the units it found, a serial keeps
\* its unit number from one setup to the next, whatever the order `info`
\* names the modules in and whatever serials are added.
C27_UnitNumbersStable ==
    [][\A s \in Found(coordinator) \cap Found(coordinator') :
          NumberOf(coordinator', s) = NumberOf(coordinator, s)]_vars

\* the ids of unit and cell sensors among a set of sensor ids
UnitAndCell(ids) == {k \in ids : Len(k) > 1}

\* C29: with N modules named by info, N unit rows and 15 * N cell rows, the
\* unit and cell sensor ids that sensor setup registers are the unit and
\* cell keys an update cycle produces, and the cycle writes no key twice.
C29_SensorIdsMatchKeys ==
    (entities # {} /\ result # <<>>) =>
        /\ result[1].exc = NoExc
        /\ UnitAndCell(result[1].keys) = UnitAndCell(entities)
        /\ result[1].writes = Cardinality(result[1].keys)

\* entities are registered and an update has run for several modules whose
\* unit numbers are not their indexes
C29_Witness ==
    /\ entities # {} /\ result # <<>>
    /\ Units(coordinator) >= 2
    /\ \E i \in DOMAIN coordinator.unit_positions :
          coordinator.unit_positions[i] # i - 1
    /\ Cardinality(UnitAndCell(entities)) =
          Units(coordinator) * (Cardinality(coordinator.unit_sensors)
              + CellsPerUnit * Cardinality(coordinator.bat_sensors))

\* C28: every _async_update_data and detect_sensors of both coordinators
\* closes the connection it opened before it ends, whether the commands
\* succeed or fail: between two cycles no connection is open, connect() is
\* not called while a connection is open, and at most one is open at a time.
C28_CycleClosesItsConnection ==
    /\ cycle.op = "idle" => conns = {}
    /\ call \in {"connecting", "unanswered"} => conns = {}
    /\ Cardinality(conns) <= 1

=============================================================================
